---- MODULE Spec2Model ----
(***************************************************************************)
(* road_runner: run planning (Runner.plan) and sequential execution        *)
(* (Runner.execute, Runner._execute_subrun, AdapterExecutor.run) as a      *)
(* state machine.  One behaviour is one `road_runner run` invocation:      *)
(* the inputs are loaded, plan() runs, and if it returns, execute() runs.  *)
(***************************************************************************)
EXTENDS Integers, Sequences, FiniteSets, TLC

(***************************************************************************)
(* Bounds of the model.                                                    *)
(***************************************************************************)
\* numeric parameter values range over 0..MaxNum
MaxNum == 2
\* a flow has at most MaxSteps steps, a sweep list at most MaxSteps values
MaxSteps == 2
\* the wall clock advances at most MaxTicks times between two calls
MaxTicks == 2
\* a profiles directory holds at most MaxProfiles files
MaxProfiles == 3

(***************************************************************************)
(* The wall clock of the process, which the functions of models.py may     *)
(* not consult.                                                            *)
(***************************************************************************)
VARIABLE wall_clock

(***************************************************************************)
(* Python values.  A value is a record with a tag t; numbers carry n.      *)
(*   None  - Python None (YAML null)                                       *)
(*   NaN   - float("nan") (YAML .nan): every comparison with it is false   *)
(*   Text  - a string float() rejects, e.g. "abc"                          *)
(*   Map   - a non-empty mapping, EmptyMap - {}                            *)
(*   ListV - a list or tuple of values                                     *)
(***************************************************************************)
None == [t |-> "none", n |-> 0]
NaN == [t |-> "nan", n |-> 0]
Text == [t |-> "text", n |-> 0]
Map == [t |-> "map", n |-> 1]
EmptyMap == [t |-> "map", n |-> 0]
Num(i) == [t |-> "num", n |-> i]
ListV(s) == [t |-> "list", n |-> Len(s), items |-> s]

Nums == {Num(i) : i \in 0..MaxNum}
Scalars == Nums \cup {None, NaN, Text}

\* bool(value) for the values that are tested for truth in the code
Truthy(v) ==
  CASE v.t = "none" -> FALSE
    [] v.t = "map" -> v.n # 0
    [] v.t = "list" -> v.n # 0
    [] v.t = "num" -> v.n # 0
    [] OTHER -> TRUE

\* float(value): the tag says whether the conversion succeeds
FloatOk(v) == v.t \in {"num", "nan"}
\* numeric < bound and numeric > bound on floats; false when numeric is NaN
FloatLess(v, b) == v.t = "num" /\ v.n < b.n
FloatGreater(v, b) == v.t = "num" /\ v.n > b.n

(***************************************************************************)
(* Python dicts keep insertion order: a dict is a sequence of entries      *)
(* [k |-> key, v |-> value] with pairwise distinct keys.                   *)
(***************************************************************************)
Entry(key, value) == [k |-> key, v |-> value]
DictKeys(d) == {d[i].k : i \in 1..Len(d)}
DictHas(d, key) == \E i \in 1..Len(d) : d[i].k = key
DictGet(d, key) == d[CHOOSE i \in 1..Len(d) : d[i].k = key].v
\* d[key] = value: an existing key keeps its position, a new key is appended
DictPut(d, key, value) ==
  IF DictHas(d, key)
    THEN [i \in 1..Len(d) |-> IF d[i].k = key THEN Entry(key, value) ELSE d[i]]
    ELSE Append(d, Entry(key, value))
\* d.get(key, {})
DictGetOrEmpty(d, key) == IF DictHas(d, key) THEN DictGet(d, key) ELSE <<>>

RECURSIVE DictUpdate(_, _)
\* d.update(e)
DictUpdate(d, e) ==
  IF Len(e) = 0 THEN d
  ELSE DictUpdate(DictPut(d, e[1].k, e[1].v), Tail(e))

RECURSIVE Concat(_)
Concat(ss) == IF Len(ss) = 0 THEN <<>> ELSE Head(ss) \o Concat(Tail(ss))

RECURSIVE product_FirstFastest(_)
\* mutant: the first list varies fastest
product_FirstFastest(lists) ==
  IF Len(lists) = 0 THEN << <<>> >>
  ELSE LET rest == product_FirstFastest(Tail(lists))
           first == Head(lists)
       IN Concat([j \in 1..Len(rest) |->
                    [i \in 1..Len(first) |-> <<first[i]>> \o rest[j]]])

RECURSIVE product(_)
\* itertools.product(*lists): the last list varies fastest
product(lists) ==
  IF Len(lists) = 0 THEN << <<>> >>
  ELSE LET rest == product(Tail(lists))
           first == Head(lists)
       IN Concat([i \in 1..Len(first) |->
                    [j \in 1..Len(rest) |-> <<first[i]>> \o rest[j]]])

(***************************************************************************)
(* Number formatting.                                                      *)
(***************************************************************************)
Digit == <<"0", "1", "2", "3", "4", "5", "6", "7", "8", "9">>

RECURSIVE Dec(_)
\* str(n) for n >= 0
Dec(n) == IF n < 10 THEN Digit[n + 1] ELSE Dec(n \div 10) \o Digit[(n % 10) + 1]
\* f"{n:02d}"
Fmt02(n) == IF n < 10 THEN "0" \o Dec(n) ELSE Dec(n)

(***************************************************************************)
(* Outcomes of a call: "ok" or the class of the exception it raises.       *)
(***************************************************************************)
Ok == "ok"
ValidationError == "ValidationError"
SafetyViolationError == "SafetyViolationError"
AdapterExecutionError == "AdapterExecutionError"
FileNotFoundError == "FileNotFoundError"

\* SafetyViolationError is a subclass of ValidationError
IsValidationError(e) == e \in {ValidationError, SafetyViolationError}

\* the outcome of running a sequence of calls in order: the first exception
FirstFailure(outcomes) ==
  IF \E i \in 1..Len(outcomes) : outcomes[i] # Ok
    THEN outcomes[CHOOSE i \in 1..Len(outcomes) :
                    /\ outcomes[i] # Ok
                    /\ \A j \in 1..(i - 1) : outcomes[j] = Ok]
    ELSE Ok

(***************************************************************************)
(* models.py: Bound and SafetyPolicy.                                      *)
(* A Bound is [minimum, maximum], each None or a number.                   *)
(***************************************************************************)
Bound(lo, hi) == [minimum |-> lo, maximum |-> hi]

BoundValidate(bound, value) ==
  IF value = None THEN Ok
  ELSE IF ~FloatOk(value) THEN ValidationError
  ELSE IF bound.minimum # None /\ FloatLess(value, bound.minimum)
    THEN SafetyViolationError
  ELSE IF bound.maximum # None /\ FloatGreater(value, bound.maximum)
    THEN SafetyViolationError
  ELSE Ok

\* mutant: only the first element of a list is held against the bound
validate_value_FirstOnly(policy, name, value) ==
  IF name \notin DOMAIN policy.avt_bounds THEN Ok
  ELSE LET bound == policy.avt_bounds[name]
       IN IF value.t = "list"
            THEN IF Len(value.items) = 0 THEN Ok
                 ELSE BoundValidate(bound, value.items[1])
            ELSE BoundValidate(bound, value)

\* mutant: a value under a name without a bound must still be numeric
validate_value_ClosedWorld(policy, name, value) ==
  IF name \notin DOMAIN policy.avt_bounds
    THEN IF value.t = "list" \/ FloatOk(value) THEN Ok ELSE ValidationError
  ELSE LET bound == policy.avt_bounds[name]
       IN IF value.t = "list"
            THEN FirstFailure([i \in 1..Len(value.items) |->
                                 BoundValidate(bound, value.items[i])])
            ELSE BoundValidate(bound, value)

\* mutant: a policy whose behavior is "warn" lets every value pass
validate_value_WarnPasses(policy, name, value) ==
  IF name \notin DOMAIN policy.avt_bounds \/ policy.behavior = "warn" THEN Ok
  ELSE LET bound == policy.avt_bounds[name]
       IN IF value.t = "list"
            THEN FirstFailure([i \in 1..Len(value.items) |->
                                 BoundValidate(bound, value.items[i])])
            ELSE BoundValidate(bound, value)

\* policy.avt_bounds is a function from the registered names to Bounds
validate_value(policy, name, value) ==
  IF name \notin DOMAIN policy.avt_bounds THEN Ok
  ELSE LET bound == policy.avt_bounds[name]
       IN IF value.t = "list"
            THEN FirstFailure([i \in 1..Len(value.items) |->
                                 BoundValidate(bound, value.items[i])])
            ELSE BoundValidate(bound, value)

(***************************************************************************)
(* models.py: FlowStep.expanded_parameters and MarginProfile.expand_points *)
(***************************************************************************)
\* a FlowStep is [name, adapter, parameters, sweeps]; sweeps maps a key to a
\* sequence of values
expanded_parameters(step) ==
  IF Len(step.sweeps) = 0 THEN <<step.parameters>>
  ELSE LET keys == [i \in 1..Len(step.sweeps) |-> step.sweeps[i].k]
           combos == product([i \in 1..Len(step.sweeps) |-> step.sweeps[i].v])
       IN [c \in 1..Len(combos) |->
             DictUpdate(step.parameters,
                        [i \in 1..Len(keys) |-> Entry(keys[i], combos[c][i])])]

\* a MarginProfile is [global_seed, targets]; targets maps a target name to
\* TargetMargins [fixed, sweeps, jitter]
base_values(profile) ==
  [i \in 1..Len(profile.targets) |->
     LET target == profile.targets[i].v
     IN Entry(profile.targets[i].k,
              IF Truthy(target.jitter)
                THEN DictPut(target.fixed, "jitter", target.jitter)
                ELSE target.fixed)]

sweep_entries(profile) ==
  Concat([i \in 1..Len(profile.targets) |->
            LET sw == profile.targets[i].v.sweeps
            IN [j \in 1..Len(sw) |->
                  [target |-> profile.targets[i].k,
                   parameter |-> sw[j].k,
                   values |-> sw[j].v]]])

\* mutant: the swept values are not overlaid
Overlay_KeepsBase(values, entries, combo) == values

RECURSIVE Overlay(_, _, _)
\* values.setdefault(target_name, {})[parameter] = chosen, entry by entry
Overlay(values, entries, combo) ==
  IF Len(entries) = 0 THEN values
  ELSE LET e == Head(entries)
           inner == DictGetOrEmpty(values, e.target)
       IN Overlay(DictPut(values, e.target, DictPut(inner, e.parameter, Head(combo))),
                  Tail(entries), Tail(combo))

\* mutant: the wall clock seeds the points of a profile without global_seed
SeedOrZero_FromClock(global_seed) ==
  IF Truthy(global_seed) THEN global_seed.n ELSE wall_clock

\* self.global_seed or 0
SeedOrZero(global_seed) == IF Truthy(global_seed) THEN global_seed.n ELSE 0

MarginPoint(identifier, values, seed) ==
  [identifier |-> identifier, values |-> values, seed |-> seed]

expand_points(profile) ==
  LET base == base_values(profile)
      entries == sweep_entries(profile)
  IN IF Len(entries) = 0
       THEN <<MarginPoint("point-0", base, SeedOrZero(profile.global_seed))>>
       ELSE LET combos == product([i \in 1..Len(entries) |-> entries[i].values])
                base_seed == SeedOrZero(profile.global_seed)
            IN [idx \in 1..Len(combos) |->
                  MarginPoint("point-" \o Dec(idx - 1),
                              Overlay(base, entries, combos[idx]),
                              base_seed + (idx - 1))]

(***************************************************************************)
(* runner.py: planning.                                                    *)
(***************************************************************************)
RECURSIVE MergeSkippingJitter(_, _)
MergeSkippingJitter(combined, source) ==
  IF Len(source) = 0 THEN combined
  ELSE MergeSkippingJitter(
         IF source[1].k = "jitter" THEN combined
         ELSE DictPut(combined, source[1].k, source[1].v),
         Tail(source))

\* mutant: the default target's values win over the adapter's
_apply_margin_for_step_DefaultWins(point, adapter) ==
  LET default_values == DictGetOrEmpty(point.values, "default")
      adapter_values == DictGetOrEmpty(point.values, adapter)
  IN MergeSkippingJitter(MergeSkippingJitter(<<>>, adapter_values), default_values)

_apply_margin_for_step(point, adapter) ==
  LET default_values == DictGetOrEmpty(point.values, "default")
      adapter_values == DictGetOrEmpty(point.values, adapter)
  IN MergeSkippingJitter(MergeSkippingJitter(<<>>, default_values), adapter_values)

_validate_safety(policy, values) ==
  FirstFailure([i \in 1..Len(values) |->
                  IF values[i].k = "jitter" THEN Ok
                  ELSE validate_value(policy, values[i].k, values[i].v)])

\* ensure_seed(seed): the wall clock when the profile has no global_seed
ensure_seed(seed, now) == IF seed = None THEN now ELSE seed.n

\* f"rr-{timestamp}-{hash}": the hash is a function of the flow path, the
\* seed and the timestamp; the identifier is kept as prefix and timestamp
_generate_parent_run_id(now) == "rr-" \o Dec(now)

StepPlan(step, invocations, margin) ==
  [step |-> step, invocations |-> invocations, margin |-> margin]

SubRunPlan(identifier, point, steps) ==
  [identifier |-> identifier, margin_point |-> point, steps |-> steps]

\* the safety checks plan() makes for one step of one point, in order
StepChecks(policy, point, step) ==
  <<_validate_safety(policy, _apply_margin_for_step(point, step.adapter))>>
  \o [i \in 1..Len(step.parameters) |->
        _validate_safety(policy, <<step.parameters[i]>>)]
  \o [i \in 1..Len(step.sweeps) |->
        _validate_safety(policy,
                         <<Entry(step.sweeps[i].k, ListV(step.sweeps[i].v))>>)]

\* the safety checks plan() makes for one margin point, in order
PointChecks(policy, flow, point) ==
  [i \in 1..Len(point.values) |-> _validate_safety(policy, point.values[i].v)]
  \o Concat([s \in 1..Len(flow) |-> StepChecks(policy, point, flow[s])])

PlanSubruns(flow, points, parent_id) ==
  [index \in 1..Len(points) |->
     SubRunPlan(parent_id \o "-s" \o Fmt02(index - 1),
                points[index],
                [s \in 1..Len(flow) |->
                   StepPlan(flow[s],
                            expanded_parameters(flow[s]),
                            _apply_margin_for_step(points[index], flow[s].adapter))])]

\* Runner.plan: [error, plan]; plan is meaningful only when error = Ok
RunnerPlan(flow, profile, policy, now) ==
  LET seed == ensure_seed(profile.global_seed, now)
      parent_id == _generate_parent_run_id(now)
      points == expand_points(profile)
      failure == FirstFailure(Concat([p \in 1..Len(points) |->
                                        <<FirstFailure(PointChecks(policy, flow, points[p]))>>]))
  IN [error |-> failure,
      parent_id |-> parent_id,
      seed |-> seed,
      safety_policy |-> policy,
      subruns |-> IF failure = Ok THEN PlanSubruns(flow, points, parent_id) ELSE <<>>]

(***************************************************************************)
(* artifacts.py: sanitize and RunPaths.  A name is a sequence of           *)
(* one-character strings; a path is a string.                              *)
(***************************************************************************)
UpperChars == <<"A", "B", "C", "D", "E", "F", "G", "H", "I", "J", "K", "L", "M",
                "N", "O", "P", "Q", "R", "S", "T", "U", "V", "W", "X", "Y", "Z">>
LowerChars == <<"a", "b", "c", "d", "e", "f", "g", "h", "i", "j", "k", "l", "m",
                "n", "o", "p", "q", "r", "s", "t", "u", "v", "w", "x", "y", "z">>
\* the class [A-Za-z0-9_.-]
SafeChars == {UpperChars[i] : i \in 1..26} \cup {LowerChars[i] : i \in 1..26}
             \cup {Digit[i] : i \in 1..10} \cup {"_", ".", "-"}
Whitespace == {" "}

\* str.lower() on one character
LowerChar(c) ==
  IF \E i \in 1..26 : UpperChars[i] = c
    THEN LowerChars[CHOOSE i \in 1..26 : UpperChars[i] = c]
    ELSE c

RECURSIVE StripLeft(_, _)
StripLeft(cs, drop) ==
  IF Len(cs) > 0 /\ cs[1] \in drop THEN StripLeft(Tail(cs), drop) ELSE cs

RECURSIVE StripRight(_, _)
StripRight(cs, drop) ==
  IF Len(cs) > 0 /\ cs[Len(cs)] \in drop
    THEN StripRight(SubSeq(cs, 1, Len(cs) - 1), drop)
    ELSE cs

Strip(cs, drop) == StripRight(StripLeft(cs, drop), drop)

RECURSIVE SubRuns(_, _)
\* re.sub(r"[^A-Za-z0-9_.-]+", "-", cs): each maximal run of other characters
\* becomes one "-"; inrun says the previous character was replaced
SubRuns(cs, inrun) ==
  IF Len(cs) = 0 THEN <<>>
  ELSE IF cs[1] \in SafeChars THEN <<cs[1]>> \o SubRuns(Tail(cs), FALSE)
  ELSE IF inrun THEN SubRuns(Tail(cs), TRUE)
  ELSE <<"-">> \o SubRuns(Tail(cs), TRUE)

RECURSIVE Join(_)
Join(cs) == IF Len(cs) = 0 THEN "" ELSE cs[1] \o Join(Tail(cs))

sanitize(name) ==
  LET replaced == Strip(SubRuns(Strip(name, Whitespace), FALSE), {"-"})
  IN Join([i \in 1..Len(replaced) |-> LowerChar(replaced[i])])

parent_dir(parent_id) == "runs/" \o parent_id
plan_path(parent_id) == parent_dir(parent_id) \o "/plan.json"
summary_path(parent_id) == parent_dir(parent_id) \o "/summary.json"
sysinfo_path(parent_id) == parent_dir(parent_id) \o "/sysinfo.json"
safety_policy_path(parent_id) == parent_dir(parent_id) \o "/safety_policy.json"
markdown_report_path(parent_id) == parent_dir(parent_id) \o "/report.md"
html_report_path(parent_id) == parent_dir(parent_id) \o "/report.html"
subrun_dir(parent_id, subrun_id) == parent_dir(parent_id) \o "/subruns/" \o subrun_id
subrun_summary(parent_id, subrun_id) == subrun_dir(parent_id, subrun_id) \o "/summary.json"
subrun_ldjson(parent_id, subrun_id) == subrun_dir(parent_id, subrun_id) \o "/steps.ldjson"

\* mutant: the name does not carry the step index
StepSuffix_NoIndex(step_name, index, invocation) ==
  sanitize(step_name)
  \o (IF invocation # 0 THEN "_" \o Fmt02(invocation) ELSE "")

\* index and invocation are 0-based, as in the code
StepSuffix(step_name, index, invocation) ==
  Fmt02(index) \o "_" \o sanitize(step_name)
  \o (IF invocation # 0 THEN "_" \o Fmt02(invocation) ELSE "")

step_stdout(parent_id, subrun_id, step_name, index, invocation) ==
  subrun_dir(parent_id, subrun_id) \o "/stdout/"
  \o StepSuffix(step_name, index, invocation) \o ".log"

step_stderr(parent_id, subrun_id, step_name, index, invocation) ==
  subrun_dir(parent_id, subrun_id) \o "/stderr/"
  \o StepSuffix(step_name, index, invocation) \o ".log"

(***************************************************************************)
(* adapters.py: parameter schemas, manifests, the registry.                *)
(***************************************************************************)
\* allowed is None or a ListV; minimum and maximum are None or numbers
AdapterParameter(type, allowed, minimum, maximum) ==
  [type |-> type, allowed |-> allowed, minimum |-> minimum, maximum |-> maximum]

AdapterParameterValidate(spec, value) ==
  IF spec.allowed # None
     /\ ~(\E i \in 1..Len(spec.allowed.items) : spec.allowed.items[i] = value)
    THEN ValidationError
  ELSE IF spec.type \in {"integer", "float"}
    THEN IF ~FloatOk(value) THEN ValidationError
         ELSE IF spec.minimum # None /\ FloatLess(value, spec.minimum)
           THEN ValidationError
         ELSE IF spec.maximum # None /\ FloatGreater(value, spec.maximum)
           THEN ValidationError
         ELSE Ok
  ELSE Ok

\* the validation loop of AdapterManifest.build_command
build_command(manifest, parameters) ==
  FirstFailure([i \in 1..Len(parameters) |->
                  IF DictHas(manifest.parameters, parameters[i].k)
                    THEN AdapterParameterValidate(
                           DictGet(manifest.parameters, parameters[i].k),
                           parameters[i].v)
                    ELSE Ok])

\* a manifest: is its path absolute, does the path resolve (an absolute path
\* exists on disk, a relative name is found on the executable search path),
\* and its parameter schema
Manifest(absolute, resolves, parameters) ==
  [absolute |-> absolute, resolves |-> resolves, parameters |-> parameters]

\* the manifests found in the adapters directory
Registry ==
  [name \in {"echo", "gone", "rel", "tool", "pair"} |->
     CASE name = "echo" ->
            Manifest(TRUE, TRUE,
                     <<Entry("v", AdapterParameter("float", None, Num(0), Num(1)))>>)
       [] name = "gone" -> Manifest(TRUE, FALSE, <<>>)
       [] name = "rel" -> Manifest(FALSE, FALSE, <<>>)
       [] name = "pair" ->
            Manifest(TRUE, TRUE,
                     <<Entry("v", AdapterParameter("float", None, Num(0), Num(1))),
                       Entry("w", AdapterParameter("integer", ListV(<<Num(1), Text>>),
                                                   None, Num(1)))>>)
       [] name = "tool" ->
            Manifest(FALSE, TRUE,
                     <<Entry("v", AdapterParameter("string",
                                                   ListV(<<Num(0), Num(1)>>),
                                                   None, None))>>)]

\* AdapterRegistry.get
RegistryGet(name) == IF name \in DOMAIN Registry THEN Ok ELSE ValidationError

\* shutil.which(command[0]) if manifest.path.is_absolute() else command[0]:
\* is the result truthy
ExecutableTruthy(manifest) == IF manifest.absolute THEN manifest.resolves ELSE TRUE

\* AdapterExecutor.run for a child that exits with exit_code:
\*   error   - Ok or the exception raised
\*   opened  - the stdout and stderr files were opened for writing
\*   spawned - the child process was started
AdapterExecutorRun(name, parameters, exit_code) ==
  IF RegistryGet(name) # Ok
    THEN [error |-> RegistryGet(name), opened |-> FALSE, spawned |-> FALSE]
  ELSE LET manifest == Registry[name]
           built == build_command(manifest, parameters)
       IN IF built # Ok
            THEN [error |-> built, opened |-> FALSE, spawned |-> FALSE]
          ELSE IF manifest.absolute /\ ~manifest.resolves
            THEN [error |-> AdapterExecutionError, opened |-> FALSE, spawned |-> FALSE]
          ELSE IF ~manifest.absolute /\ ~ExecutableTruthy(manifest)
            THEN [error |-> AdapterExecutionError, opened |-> FALSE, spawned |-> FALSE]
          ELSE IF ~manifest.absolute /\ ~manifest.resolves
            \* subprocess.run cannot find the program
            THEN [error |-> FileNotFoundError, opened |-> TRUE, spawned |-> FALSE]
          ELSE IF exit_code # 0
            THEN [error |-> AdapterExecutionError, opened |-> TRUE, spawned |-> TRUE]
          ELSE [error |-> Ok, opened |-> TRUE, spawned |-> TRUE]

(***************************************************************************)
(* The state.                                                              *)
(***************************************************************************)
VARIABLES
  flow,            \* the loaded FlowDefinition's steps
  profile,         \* the loaded MarginProfile
  policy,          \* the SafetyPolicy
  pc,              \* where the run is
  plan,            \* the RunPlan returned by plan(), NoPlan before and on failure
  raised,          \* the exception plan() or execute() raised, Ok if none
  dry_run,         \* execute()'s dry_run argument
  dirs,            \* the directories that exist
  files,           \* the files that exist, path |-> content
  events,          \* history: the side effects so far, in order
  summary,         \* execute()'s summary["subruns"]
  sub_index,       \* 0-based index of the current sub-run in plan.subruns
  step_index,      \* 0-based index of the current step
  invocation_index,\* 0-based index of the current invocation of the step
  status,          \* _execute_subrun's local status
  result_status,   \* the current invocation's result_status
  error_message,   \* the current invocation's error class, None if none
  sub_summary,     \* _execute_subrun's sub_summary
  writing,         \* the file dump_json has opened with "w" and not yet closed
  points,          \* what a call of MarginProfile.expand_points returned
  again,           \* what a later call of expand_points on the profile returned
  arg_name,        \* the name given to Bound.validate / validate_value
  arg_value,       \* the value given to Bound.validate / validate_value
  outcome,         \* Ok, or the exception the call raised
  discovered,      \* the safety profiles of the profiles directory, in sorted path order
  engine_profiles, \* SafetyProfileEngine._profiles
  engine_loaded,   \* SafetyProfileEngine._loaded
  fingerprint,     \* the HardwareFingerprint of the system
  selected,        \* what SafetyProfileEngine.select returned
  call_name,       \* the adapter name given to AdapterExecutor.run
  call_parameters, \* the parameters given to AdapterExecutor.run
  call_result      \* how the call ended: its error, and what it opened and spawned

(***************************************************************************)
(* Groups of the state variables.                                          *)
(***************************************************************************)
\* the variables of the calls that are made outside a run
expanding == <<wall_clock, points, again>>
validating == <<arg_name, arg_value, outcome>>
selecting == <<discovered, engine_profiles, engine_loaded, fingerprint, selected>>
invoking == <<call_name, call_parameters, call_result>>
aside == <<expanding, validating, selecting, invoking>>

vars == <<flow, profile, policy, pc, plan, raised, dry_run, dirs, files, events,
          summary, sub_index, step_index, invocation_index, status,
          result_status, error_message, sub_summary, writing, aside>>

inputs == <<flow, profile, policy>>
locals == <<sub_index, step_index, invocation_index, status, result_status,
            error_message, sub_summary>>

NoPlan == [error |-> "none", parent_id |-> "", seed |-> 0,
           safety_policy |-> [avt_bounds |-> <<>>, behavior |-> "abort"],
           subruns |-> <<>>]
NoSubSummary == [run_id |-> "", point_id |-> "", status |-> "", steps |-> <<>>]

\* the wall clock, in seconds, when plan() runs
Clock == {7}

(***************************************************************************)
(* The inputs.                                                             *)
(***************************************************************************)
FlowStep(name, adapter, parameters, sweeps) ==
  [name |-> name, adapter |-> adapter, parameters |-> parameters, sweeps |-> sweeps]
TargetMargins(fixed, sweeps, jitter) ==
  [fixed |-> fixed, sweeps |-> sweeps, jitter |-> jitter]
MarginProfile(global_seed, targets) ==
  [global_seed |-> global_seed, targets |-> targets]
SafetyPolicy(avt_bounds, behavior) ==
  [avt_bounds |-> avt_bounds, behavior |-> behavior]

\* runner.py: _default_margin_profile
_default_margin_profile ==
  MarginProfile(None, <<Entry("default", TargetMargins(<<>>, <<>>, None))>>)

\* "nope" names no manifest
AdapterNames == {"echo", "gone", "rel", "tool", "nope"}

\* the step that uses an adapter is named after it; "Echo 1" and "echo-1"
\* sanitize to the same text
StepNameOf(adapter) ==
  CASE adapter = "echo" -> <<"E", "c", "h", "o", " ", "1">>
    [] adapter = "tool" -> <<"e", "c", "h", "o", "-", "1">>
    [] adapter = "gone" -> <<"g", "o", "n", "e">>
    [] adapter = "rel" -> <<" ", "r", "e", "l", "/">>
    [] OTHER -> <<"n", "o", "p", "e">>

\* steps without values of their own, or with a sweep of two values
PlainSteps ==
  {FlowStep(StepNameOf(a), a, <<>>, <<>>) : a \in AdapterNames}
  \cup {FlowStep(StepNameOf("echo"), "echo", <<Entry("v", Num(0))>>,
                 <<Entry("v", <<Num(1), Num(1)>>)>>)}

\* steps of one fixed parameter or one sweep, over all values
RichSteps ==
  {FlowStep(StepNameOf(a), a, <<Entry(k, x)>>, <<>>) :
     a \in {"echo", "tool"}, k \in {"v", "jitter"}, x \in Scalars}
  \cup {FlowStep(StepNameOf("echo"), "echo", <<>>, <<Entry("v", l)>>) :
          l \in {<<>>} \cup {<<Num(1), x>> : x \in Scalars}}

RECURSIVE SeqsUpTo(_, _)
\* the sequences over S of length at most n
SeqsUpTo(S, n) ==
  IF n = 0 THEN {<<>>}
  ELSE LET shorter == SeqsUpTo(S, n - 1)
       IN shorter \cup {Append(q, x) : q \in shorter, x \in S}

PlainFlows == SeqsUpTo(PlainSteps, MaxSteps)
RichFlows == {<<s>> : s \in RichSteps}

PlainProfiles ==
  {_default_margin_profile,
   MarginProfile(Num(3),
                 <<Entry("default", TargetMargins(<<>>, <<Entry("v", <<Num(1), Num(1)>>)>>, Map)),
                   Entry("echo", TargetMargins(<<Entry("v", Num(1))>>, <<>>, None))>>)}

RichProfiles ==
  {MarginProfile(None, <<Entry("default", TargetMargins(<<Entry("v", x)>>, <<>>, None))>>) :
     x \in Scalars}
  \cup {MarginProfile(None, <<Entry("default", TargetMargins(<<>>, <<Entry("v", l)>>, None))>>) :
          l \in {<<>>} \cup {<<Num(1), x>> : x \in Scalars}}

\* the behavior map of a policy, by its on_violation entry
Behaviors == {"abort", "warn"}

Policies ==
  {SafetyPolicy(<<>>, "abort"),
   SafetyPolicy([name \in {"v"} |-> Bound(Num(1), Num(1))], "abort"),
   SafetyPolicy([name \in {"v"} |-> Bound(None, Num(1))], "warn"),
   SafetyPolicy([name \in {"v", "jitter"} |->
                   IF name = "v" THEN Bound(Num(1), None) ELSE Bound(Num(1), Num(1))],
                "abort")}

\* nothing has been called outside a run
ExpandIdle ==
  /\ wall_clock = 0
  /\ points = <<>>
  /\ again = <<>>

ValidateIdle ==
  /\ arg_name = ""
  /\ arg_value = None
  /\ outcome = Ok

SelectIdle ==
  /\ discovered = <<>>
  /\ engine_profiles = <<>>
  /\ engine_loaded = FALSE
  /\ fingerprint = None
  /\ selected = None

NoCall == [error |-> Ok, opened |-> FALSE, spawned |-> FALSE]

InvokeIdle ==
  /\ call_name = ""
  /\ call_parameters = <<>>
  /\ call_result = NoCall

AsideIdle == ExpandIdle /\ ValidateIdle /\ SelectIdle /\ InvokeIdle

\* no run has started
RunIdle ==
  /\ plan = NoPlan
  /\ raised = Ok
  /\ dry_run = FALSE
  /\ dirs = {}
  /\ files = <<>>
  /\ events = <<>>
  /\ summary = <<>>
  /\ sub_index = 0
  /\ step_index = 0
  /\ invocation_index = 0
  /\ status = ""
  /\ result_status = ""
  /\ error_message = None
  /\ sub_summary = NoSubSummary
  /\ writing = ""

Init ==
  /\ \/ flow \in PlainFlows /\ profile \in PlainProfiles
     \/ flow \in RichFlows \cup {<<>>} /\ profile \in PlainProfiles \cup RichProfiles
  /\ policy \in Policies
  /\ pc = "load"
  /\ AsideIdle
  /\ plan = NoPlan
  /\ raised = Ok
  /\ dry_run = FALSE
  /\ dirs = {}
  /\ files = <<>>
  /\ events = <<>>
  /\ summary = <<>>
  /\ sub_index = 0
  /\ step_index = 0
  /\ invocation_index = 0
  /\ status = ""
  /\ result_status = ""
  /\ error_message = None
  /\ sub_summary = NoSubSummary
  /\ writing = ""

(***************************************************************************)
(* cli.py run: runner.plan(...) then runner.execute(plan, ...).            *)
(***************************************************************************)
Plan ==
  /\ pc = "load"
  /\ \E now \in Clock :
       LET result == RunnerPlan(flow, profile, policy, now)
       IN IF result.error = Ok
            THEN /\ plan' = result
                 /\ pc' = "planned"
                 /\ raised' = Ok
            ELSE /\ plan' = NoPlan
                 /\ pc' = "plan_raised"
                 /\ raised' = result.error
  /\ UNCHANGED <<aside, writing, inputs, dry_run, dirs, files, events, summary, locals>>

(***************************************************************************)
(* History records and file contents.                                      *)
(***************************************************************************)
\* one side effect: what happened, to which path, for which invocation
Event(what, path, sub, step, invocation, detail) ==
  [e |-> what, path |-> path, sub |-> sub, step |-> step, inv |-> invocation,
   detail |-> detail]

\* json.dump to a file opened with "w": the file holds exactly the payload
WriteFile(fs, path, content) ==
  [q \in DOMAIN fs \cup {path} |-> IF q = path THEN content ELSE fs[q]]
\* a file opened with "a": created when missing, the record is added at the end
AppendFile(fs, path, record) ==
  [q \in DOMAIN fs \cup {path} |->
     IF q = path
       THEN (IF path \in DOMAIN fs THEN fs[path] ELSE <<>>) \o <<record>>
       ELSE fs[q]]

CurrentSub == plan.subruns[sub_index + 1]
CurrentStepPlan == CurrentSub.steps[step_index + 1]
CurrentParameters == CurrentStepPlan.invocations[invocation_index + 1]

\* the first step at or after step s that has an invocation; Len(steps) when
\* the loops are exhausted
RECURSIVE NextStepWithInvocation(_, _)
NextStepWithInvocation(steps, s) ==
  IF s >= Len(steps) THEN Len(steps)
  ELSE IF Len(steps[s + 1].invocations) > 0 THEN s
  ELSE NextStepWithInvocation(steps, s + 1)

step_label(step_plan, invocation) ==
  IF Len(step_plan.invocations) = 1
    THEN Join(step_plan.step.name)
    ELSE Join(step_plan.step.name) \o "[" \o Dec(invocation) \o "]"

(***************************************************************************)
(* runner.py: Runner.execute.                                              *)
(***************************************************************************)
\* mutant: execute() resets the seed of the plan it was given
ExecuteBegin_ResetsSeed ==
  /\ pc = "planned"
  /\ \E d \in BOOLEAN : dry_run' = d
  /\ plan' = [plan EXCEPT !.seed = 0]
  /\ dirs' = dirs \cup {parent_dir(plan.parent_id)}
  /\ events' = Append(events, Event("mkdir", parent_dir(plan.parent_id), 0, 0, 0, ""))
  /\ pc' = "write_plan"
  /\ UNCHANGED <<aside, writing, inputs, raised, files, summary, locals>>

\* lines 158-160: the run directory
ExecuteBegin ==
  /\ pc = "planned"
  /\ \E d \in BOOLEAN : dry_run' = d
  /\ dirs' = dirs \cup {parent_dir(plan.parent_id)}
  /\ events' = Append(events, Event("mkdir", parent_dir(plan.parent_id), 0, 0, 0, ""))
  /\ pc' = "write_plan"
  /\ UNCHANGED <<aside, writing, inputs, plan, raised, files, summary, locals>>

\* lines 162-163
WritePlan ==
  /\ pc = "write_plan"
  /\ files' = WriteFile(files, plan_path(plan.parent_id), <<>>)
  /\ events' = Append(events, Event("write", plan_path(plan.parent_id), 0, 0, 0, ""))
  /\ pc' = "write_sysinfo"
  /\ UNCHANGED <<aside, writing, inputs, plan, raised, dry_run, dirs, summary, locals>>

\* lines 165-166
WriteSysinfo ==
  /\ pc = "write_sysinfo"
  /\ files' = WriteFile(files, sysinfo_path(plan.parent_id), <<>>)
  /\ events' = Append(events, Event("write", sysinfo_path(plan.parent_id), 0, 0, 0, ""))
  /\ pc' = "write_safety_policy"
  /\ UNCHANGED <<aside, writing, inputs, plan, raised, dry_run, dirs, summary, locals>>

\* mutant: the safety policy is not persisted before the sub-runs
WriteSafetyPolicy_Skipped ==
  /\ pc = "write_safety_policy"
  /\ pc' = "write_summary"
  /\ UNCHANGED <<aside, writing, inputs, plan, raised, dry_run, dirs, files, events, summary, locals>>

\* lines 167-178
WriteSafetyPolicy ==
  /\ pc = "write_safety_policy"
  /\ files' = WriteFile(files, safety_policy_path(plan.parent_id), <<>>)
  /\ events' = Append(events,
                      Event("write", safety_policy_path(plan.parent_id), 0, 0, 0, ""))
  /\ pc' = "write_summary"
  /\ UNCHANGED <<aside, writing, inputs, plan, raised, dry_run, dirs, summary, locals>>

\* lines 180-199: the initial summary, "subruns": []
WriteInitialSummary ==
  /\ pc = "write_summary"
  /\ summary' = <<>>
  /\ files' = WriteFile(files, summary_path(plan.parent_id), <<>>)
  /\ events' = Append(events, Event("write", summary_path(plan.parent_id), 0, 0, 0, ""))
  /\ pc' = "dry_run_test"
  /\ UNCHANGED <<aside, writing, inputs, plan, raised, dry_run, dirs, locals>>

\* mutant: the loop over the sub-runs stops after a failed sub-run
SubrunLoop_StopsAfterFail(k) ==
  IF k < Len(plan.subruns) /\ status # "FAIL" THEN "subrun_begin" ELSE "render_reports"

\* where `for subplan in plan.subruns` goes with sub-run k (0-based) next
SubrunLoop(k) == IF k < Len(plan.subruns) THEN "subrun_begin" ELSE "render_reports"

\* mutant: dry_run is not consulted
DryRunTest_IgnoresFlag ==
  /\ pc = "dry_run_test"
  /\ pc' = SubrunLoop(0)
  /\ sub_index' = 0
  /\ UNCHANGED <<aside, writing, inputs, plan, raised, dry_run, dirs, files, events, summary,
                 step_index, invocation_index, status, result_status,
                 error_message, sub_summary>>

\* lines 201-204: return on dry_run, else enter the loop over the sub-runs
DryRunTest ==
  /\ pc = "dry_run_test"
  /\ IF dry_run
       THEN pc' = "returned"
       ELSE pc' = SubrunLoop(0)
  /\ sub_index' = 0
  /\ UNCHANGED <<aside, writing, inputs, plan, raised, dry_run, dirs, files, events, summary,
                 step_index, invocation_index, status, result_status,
                 error_message, sub_summary>>

(***************************************************************************)
(* runner.py: Runner._execute_subrun.                                      *)
(***************************************************************************)
\* where the loops over steps and invocations go from step s (0-based)
StepLoop(steps, s) ==
  IF NextStepWithInvocation(steps, s) < Len(steps) THEN "log_start" ELSE "subrun_end"

\* lines 220-236: the sub-run directory, the logger, the PENDING summary
SubrunBegin ==
  /\ pc = "subrun_begin"
  /\ dirs' = dirs \cup {subrun_dir(plan.parent_id, CurrentSub.identifier)}
  /\ events' = Append(events,
                      Event("mkdir", subrun_dir(plan.parent_id, CurrentSub.identifier),
                            sub_index, 0, 0, ""))
  /\ sub_summary' = [run_id |-> CurrentSub.identifier,
                     point_id |-> CurrentSub.margin_point.identifier,
                     status |-> "PENDING",
                     steps |-> <<>>]
  /\ status' = "PASS"
  /\ step_index' = NextStepWithInvocation(CurrentSub.steps, 0)
  /\ invocation_index' = 0
  /\ pc' = StepLoop(CurrentSub.steps, 0)
  /\ UNCHANGED <<aside, writing, inputs, plan, raised, dry_run, files, summary, sub_index,
                 result_status, error_message>>

\* lines 237-258: the "start" record
LogStart ==
  /\ pc = "log_start"
  /\ files' = AppendFile(files, subrun_ldjson(plan.parent_id, CurrentSub.identifier),
                         [action |-> "start",
                          step |-> step_label(CurrentStepPlan, invocation_index),
                          status |-> ""])
  /\ events' = Append(events,
                      Event("log_start",
                            subrun_ldjson(plan.parent_id, CurrentSub.identifier),
                            sub_index, step_index, invocation_index, ""))
  /\ result_status' = "PASS"
  /\ error_message' = None
  /\ pc' = "run_adapter"
  /\ UNCHANGED <<aside, writing, inputs, plan, raised, dry_run, dirs, summary, sub_index,
                 step_index, invocation_index, status, sub_summary>>

StdoutPath ==
  step_stdout(plan.parent_id, CurrentSub.identifier, CurrentStepPlan.step.name,
              step_index, invocation_index)
StderrPath ==
  step_stderr(plan.parent_id, CurrentSub.identifier, CurrentStepPlan.step.name,
              step_index, invocation_index)

\* the side effects of AdapterExecutor.run, in order: the capture files are
\* opened, then the child is started
RunEvents(run, exit_code) ==
  (IF run.opened
     THEN <<Event("open", StdoutPath, sub_index, step_index, invocation_index, ""),
            Event("open", StderrPath, sub_index, step_index, invocation_index, "")>>
     ELSE <<>>)
  \o (IF run.spawned
        THEN <<Event("spawn", "", sub_index, step_index, invocation_index,
                     Dec(exit_code))>>
        ELSE <<>>)

\* lines 259-276: self._executor.run(...) under `except AdapterExecutionError`;
\* any other exception leaves _execute_subrun and execute
RunAdapter ==
  /\ pc = "run_adapter"
  /\ \E exit_code \in {0, 1} :
       LET run == AdapterExecutorRun(CurrentStepPlan.step.adapter,
                                     CurrentParameters, exit_code)
       IN /\ files' = IF run.opened
                        THEN WriteFile(WriteFile(files, StdoutPath, <<>>),
                                       StderrPath, <<>>)
                        ELSE files
          /\ dirs' = IF run.opened
                       THEN dirs \cup {subrun_dir(plan.parent_id, CurrentSub.identifier)
                                         \o "/stdout",
                                       subrun_dir(plan.parent_id, CurrentSub.identifier)
                                         \o "/stderr"}
                       ELSE dirs
          /\ IF run.error = Ok
               THEN /\ events' = events \o RunEvents(run, exit_code)
                    /\ UNCHANGED <<aside, writing, result_status, error_message, status, raised>>
                    /\ pc' = "log_end"
             ELSE IF run.error = AdapterExecutionError
               THEN /\ events' = events \o RunEvents(run, exit_code)
                    /\ result_status' = "FAIL"
                    /\ error_message' = Text
                    /\ status' = "FAIL"
                    /\ UNCHANGED raised
                    /\ pc' = "log_end"
             ELSE /\ events' = events \o RunEvents(run, exit_code)
                               \o <<Event("raise", "", sub_index, step_index,
                                          invocation_index, run.error)>>
                  /\ raised' = run.error
                  /\ UNCHANGED <<aside, writing, result_status, error_message, status>>
                  /\ pc' = "raised"
  /\ UNCHANGED <<aside, writing, inputs, plan, dry_run, summary, sub_index, step_index,
                 invocation_index, sub_summary>>

\* mutant: the loops ignore a failed invocation and go on
AfterInvocation_NoBreak(steps, s, i, result, st) ==
  IF i + 1 < Len(steps[s + 1].invocations)
    THEN [step |-> s, inv |-> i + 1, pc |-> "log_start"]
  ELSE [step |-> NextStepWithInvocation(steps, s + 1), inv |-> 0,
        pc |-> StepLoop(steps, s + 1)]

\* mutant: a failed invocation is attempted once more
AfterInvocation_RetryOnce(steps, s, i, result, st) ==
  IF result # "PASS"
    THEN IF \E j \in 1..Len(sub_summary.steps) : sub_summary.steps[j].stdout = StdoutPath
           THEN [step |-> s, inv |-> i, pc |-> "subrun_end"]
           ELSE [step |-> s, inv |-> i, pc |-> "log_start"]
  ELSE IF i + 1 < Len(steps[s + 1].invocations)
    THEN [step |-> s, inv |-> i + 1, pc |-> "log_start"]
  ELSE [step |-> NextStepWithInvocation(steps, s + 1), inv |-> 0,
        pc |-> StepLoop(steps, s + 1)]

\* lines 303-306: where the loops go after an invocation
AfterInvocation(steps, s, i, result, st) ==
  IF result # "PASS" THEN
    \* break out of the invocations; lines 305-306 decide about the steps
    IF st # "PASS" THEN [step |-> s, inv |-> i, pc |-> "subrun_end"]
    ELSE [step |-> NextStepWithInvocation(steps, s + 1), inv |-> 0,
          pc |-> StepLoop(steps, s + 1)]
  ELSE IF i + 1 < Len(steps[s + 1].invocations)
    THEN [step |-> s, inv |-> i + 1, pc |-> "log_start"]
  ELSE IF st # "PASS" THEN [step |-> s, inv |-> i, pc |-> "subrun_end"]
  ELSE [step |-> NextStepWithInvocation(steps, s + 1), inv |-> 0,
        pc |-> StepLoop(steps, s + 1)]

\* lines 277-306: the "end" record, the step result, the loop control
LogEnd ==
  /\ pc = "log_end"
  /\ files' = AppendFile(files, subrun_ldjson(plan.parent_id, CurrentSub.identifier),
                         [action |-> "end",
                          step |-> step_label(CurrentStepPlan, invocation_index),
                          status |-> result_status])
  /\ events' = Append(events,
                      Event("log_end",
                            subrun_ldjson(plan.parent_id, CurrentSub.identifier),
                            sub_index, step_index, invocation_index, result_status))
  /\ sub_summary' =
       [sub_summary EXCEPT !.steps =
          Append(@, [name |-> step_label(CurrentStepPlan, invocation_index),
                     adapter |-> CurrentStepPlan.step.adapter,
                     status |-> result_status,
                     parameters |-> CurrentParameters,
                     stdout |-> StdoutPath,
                     stderr |-> StderrPath,
                     margin |-> CurrentStepPlan.margin,
                     error |-> error_message])]
  /\ LET after == AfterInvocation(CurrentSub.steps, step_index, invocation_index,
                                  result_status, status)
     IN /\ step_index' = after.step
        /\ invocation_index' = after.inv
        /\ pc' = after.pc
  /\ UNCHANGED <<aside, writing, inputs, plan, raised, dry_run, dirs, summary, sub_index, status,
                 result_status, error_message>>

\* mutant: the summary is persisted without the final status
SubrunEnd_KeepsPending ==
  /\ pc = "subrun_end"
  /\ files' = WriteFile(files, subrun_summary(plan.parent_id, CurrentSub.identifier),
                        <<sub_summary>>)
  /\ events' = Append(events,
                      Event("write",
                            subrun_summary(plan.parent_id, CurrentSub.identifier),
                            sub_index, 0, 0, status))
  /\ pc' = "append_subrun"
  /\ UNCHANGED <<aside, writing, inputs, plan, raised, dry_run, dirs, summary, locals>>

\* mutant: the sub-run's own summary is not persisted
SubrunEnd_NotPersisted ==
  /\ pc = "subrun_end"
  /\ sub_summary' = [sub_summary EXCEPT !.status = status]
  /\ pc' = "append_subrun"
  /\ UNCHANGED <<aside, writing, inputs, plan, raised, dry_run, dirs, files, events,
                 summary, sub_index, step_index, invocation_index, status,
                 result_status, error_message>>

\* lines 307-312: the status, the sub-run's own summary.json
SubrunEnd ==
  /\ pc = "subrun_end"
  /\ sub_summary' = [sub_summary EXCEPT !.status = status]
  /\ files' = WriteFile(files, subrun_summary(plan.parent_id, CurrentSub.identifier),
                        <<[sub_summary EXCEPT !.status = status]>>)
  /\ events' = Append(events,
                      Event("write",
                            subrun_summary(plan.parent_id, CurrentSub.identifier),
                            sub_index, 0, 0, status))
  /\ pc' = "append_subrun"
  /\ UNCHANGED <<aside, writing, inputs, plan, raised, dry_run, dirs, summary, sub_index,
                 step_index, invocation_index, status, result_status,
                 error_message>>

\* lines 205-207: summary["subruns"].append(sub_summary), then write_summary
\* as far as dump_json's path.open("w"), which truncates summary.json
AppendSubrun ==
  /\ pc = "append_subrun"
  /\ summary' = Append(summary, sub_summary)
  /\ files' = WriteFile(files, summary_path(plan.parent_id), <<>>)
  /\ writing' = summary_path(plan.parent_id)
  /\ pc' = "dump_summary"
  /\ UNCHANGED <<aside, inputs, plan, raised, dry_run, dirs, events, locals>>

\* dump_json: json.dump into the open file and its close, then line 204
\* mutant: the top-level summary lists the sub-runs without their step results
DumpSummary_WithoutSteps ==
  /\ pc = "dump_summary"
  /\ files' = WriteFile(files, writing,
                        [k \in 1..Len(summary) |-> [summary[k] EXCEPT !.steps = <<>>]])
  /\ writing' = ""
  /\ events' = Append(events, Event("write", writing, sub_index, 0, 0, ""))
  /\ sub_index' = sub_index + 1
  /\ pc' = SubrunLoop(sub_index + 1)
  /\ UNCHANGED <<aside, inputs, plan, raised, dry_run, dirs, summary, step_index,
                 invocation_index, status, result_status, error_message, sub_summary>>

DumpSummary ==
  /\ pc = "dump_summary"
  /\ files' = WriteFile(files, writing, summary)
  /\ writing' = ""
  /\ events' = Append(events, Event("write", writing, sub_index, 0, 0, ""))
  /\ sub_index' = sub_index + 1
  /\ pc' = SubrunLoop(sub_index + 1)
  /\ UNCHANGED <<aside, inputs, plan, raised, dry_run, dirs, summary, step_index,
                 invocation_index, status, result_status, error_message,
                 sub_summary>>

\* mutant: only the Markdown report is rendered
RenderReports_MarkdownOnly ==
  /\ pc = "render_reports"
  /\ files' = WriteFile(files, markdown_report_path(plan.parent_id), <<>>)
  /\ events' = Append(events, Event("write", markdown_report_path(plan.parent_id), 0, 0, 0, ""))
  /\ pc' = "returned"
  /\ UNCHANGED <<aside, writing, inputs, plan, raised, dry_run, dirs, summary, locals>>

\* lines 209-212: reporting.render_reports, then return summary
RenderReports ==
  /\ pc = "render_reports"
  /\ files' = WriteFile(WriteFile(files, markdown_report_path(plan.parent_id), <<>>),
                        html_report_path(plan.parent_id), <<>>)
  /\ events' = events
               \o <<Event("write", markdown_report_path(plan.parent_id), 0, 0, 0, ""),
                    Event("write", html_report_path(plan.parent_id), 0, 0, 0, "")>>
  /\ pc' = "returned"
  /\ UNCHANGED <<aside, writing, inputs, plan, raised, dry_run, dirs, summary, locals>>

Next ==
  \/ Plan
  \/ ExecuteBegin
  \/ WritePlan
  \/ WriteSysinfo
  \/ WriteSafetyPolicy
  \/ WriteInitialSummary
  \/ DryRunTest
  \/ SubrunBegin
  \/ LogStart
  \/ RunAdapter
  \/ LogEnd
  \/ SubrunEnd
  \/ AppendSubrun
  \/ DumpSummary
  \/ RenderReports

Spec == Init /\ [][Next]_vars

(***************************************************************************)
(* models.py: MarginProfile.expand_points called on a loaded profile, and  *)
(* called once more at a later time.                                       *)
(***************************************************************************)
run == <<plan, raised, dry_run, dirs, files, events, summary, locals, writing>>

SweepLists == SeqsUpTo(Nums, MaxSteps)

\* the margins of target "default": fixed u, sweeps of v and w, jitter
DefaultTargets ==
  {TargetMargins(f, s, None) :
     f \in {<<>>, <<Entry("u", Num(0))>>},
     s \in {<<>>} \cup {<<Entry("v", l)>> : l \in SweepLists}
          \cup {<<Entry("v", <<Num(0), Num(1)>>), Entry("w", l)>> : l \in SweepLists}}
  \cup {TargetMargins(<<>>, s, j) :
          s \in {<<>>, <<Entry("v", <<Num(0), Num(1)>>)>>},
          j \in {Map, EmptyMap}}

\* the margins of a second target
EchoTargets ==
  {TargetMargins(<<Entry("v", Num(1))>>, <<>>, Map),
   TargetMargins(<<>>, <<Entry("v", <<Num(MaxNum), Num(1), Num(0)>>)>>, None)}

ExpandProfiles ==
  {MarginProfile(g, t) :
     g \in {None, Num(0), Num(MaxNum)},
     t \in {<<Entry("default", d)>> : d \in DefaultTargets}
          \cup {<<Entry("default", d), Entry("echo", e)>> :
                  d \in DefaultTargets, e \in EchoTargets}
          \cup {<<Entry("echo", e), Entry("default", d)>> :
                  d \in DefaultTargets, e \in EchoTargets}}

ExpandInit ==
  /\ profile \in ExpandProfiles
  /\ flow = <<>>
  /\ policy = SafetyPolicy(<<>>, "abort")
  /\ pc = "expand"
  /\ AsideIdle
  /\ RunIdle

\* points = profile.expand_points()
ExpandPoints ==
  /\ pc = "expand"
  /\ points' = expand_points(profile)
  /\ pc' = "expanded"
  /\ UNCHANGED <<inputs, run, validating, selecting, invoking, wall_clock, again>>

\* time passes between the two calls
Tick ==
  /\ pc = "expanded"
  /\ wall_clock < MaxTicks
  /\ wall_clock' = wall_clock + 1
  /\ UNCHANGED <<inputs, run, validating, selecting, invoking, pc, points, again>>

\* again = profile.expand_points(), on the same profile
ExpandAgain ==
  /\ pc = "expanded"
  /\ again' = expand_points(profile)
  /\ pc' = "expanded_again"
  /\ UNCHANGED <<inputs, run, validating, selecting, invoking, wall_clock, points>>

ExpandNext ==
  \/ ExpandPoints
  \/ Tick
  \/ ExpandAgain

SpecExpand == ExpandInit /\ [][ExpandNext]_vars

(***************************************************************************)
(* models.py: Bound.validate and SafetyPolicy.validate_value called on a   *)
(* name and a value, and Runner.plan called on a flow whose only step      *)
(* carries the value under that name.                                      *)
(***************************************************************************)
\* a policy with every bound on "v" and none on "u", and one without bounds
ValidatePolicies ==
  {SafetyPolicy([n \in {"v"} |-> Bound(lo, hi)], "abort") :
     lo \in {None} \cup Nums, hi \in {None} \cup Nums}
  \cup {SafetyPolicy(<<>>, "abort")}

ValidateValues ==
  Scalars \cup {Map, EmptyMap} \cup {ListV(l) : l \in SeqsUpTo(Scalars, MaxSteps)}

\* the step that carries value under key: a sweep for a list, else a parameter
StepCarrying(key, v) ==
  IF v.t = "list"
    THEN FlowStep(StepNameOf("echo"), "echo", <<>>, <<Entry(key, v.items)>>)
    ELSE FlowStep(StepNameOf("echo"), "echo", <<Entry(key, v)>>, <<>>)

ValidateInit ==
  /\ policy \in ValidatePolicies
  /\ arg_name \in {"v", "u"}
  /\ arg_value \in ValidateValues
  /\ flow = <<StepCarrying(arg_name, arg_value)>>
  /\ profile = _default_margin_profile
  /\ pc = "validate"
  /\ outcome = Ok
  /\ ExpandIdle
  /\ SelectIdle
  /\ InvokeIdle
  /\ RunIdle

\* policy.avt_bounds[arg_name].validate(arg_name, arg_value)
BoundValidateCall ==
  /\ pc = "validate"
  /\ arg_name \in DOMAIN policy.avt_bounds
  /\ outcome' = BoundValidate(policy.avt_bounds[arg_name], arg_value)
  /\ pc' = "bound_validated"
  /\ UNCHANGED <<inputs, run, expanding, selecting, invoking, arg_name, arg_value>>

\* policy.validate_value(arg_name, arg_value)
ValidateValueCall ==
  /\ pc = "validate"
  /\ outcome' = validate_value(policy, arg_name, arg_value)
  /\ pc' = "value_validated"
  /\ UNCHANGED <<inputs, run, expanding, selecting, invoking, arg_name, arg_value>>

\* Runner.plan on the flow that carries the value
PlanCall ==
  /\ pc = "validate"
  /\ \E t \in Clock : outcome' = RunnerPlan(flow, profile, policy, t).error
  /\ pc' = "value_planned"
  /\ UNCHANGED <<inputs, run, expanding, selecting, invoking, arg_name, arg_value>>

ValidateNext ==
  \/ BoundValidateCall
  \/ ValidateValueCall
  \/ PlanCall

SpecValidate == ValidateInit /\ [][ValidateNext]_vars

(***************************************************************************)
(* safety.py: SafetyProfileEngine.  A string is a sequence of              *)
(* one-character strings; a profile file is its name, its declared         *)
(* priority and its match criteria (an absent key is None).                *)
(***************************************************************************)
HardwareFingerprint(cpu_model, total_cores, architecture) ==
  [cpu_model |-> cpu_model, total_cores |-> total_cores,
   architecture |-> architecture]

Criteria(cpu_model_contains, architecture_contains, min_cores, max_cores) ==
  [cpu_model_contains |-> cpu_model_contains,
   architecture_contains |-> architecture_contains,
   min_cores |-> min_cores, max_cores |-> max_cores]

SafetyProfile(name, priority, match) ==
  [name |-> name, priority |-> priority, match |-> match]

\* a YAML scalar string and a YAML list of strings
StrV(cs) == [t |-> "str", cs |-> cs]
StrList(l) == [t |-> "list", items |-> l]

\* str.lower()
Lower(cs) == [i \in 1..Len(cs) |-> LowerChar(cs[i])]

\* sub in cs
Contains(sub, cs) ==
  \E i \in 1..(Len(cs) + 1) :
    /\ i + Len(sub) - 1 <= Len(cs)
    /\ \A k \in 1..Len(sub) : cs[i + k - 1] = sub[k]

_ensure_list(value) ==
  IF value = None THEN <<>>
  ELSE IF value.t = "list" THEN value.items
  ELSE <<value.cs>>

_matches(criteria, fp) ==
  LET cpu_model == Lower(fp.cpu_model)
      architecture == Lower(fp.architecture)
      total_cores == fp.total_cores
      model_contains == _ensure_list(criteria.cpu_model_contains)
      arch_contains == _ensure_list(criteria.architecture_contains)
  IN  IF /\ Len(model_contains) > 0
         /\ ~ \E i \in 1..Len(model_contains) :
                Contains(Lower(model_contains[i]), cpu_model)
        THEN FALSE
      ELSE IF /\ Len(arch_contains) > 0
              /\ ~ \E i \in 1..Len(arch_contains) :
                     Contains(Lower(arch_contains[i]), architecture)
        THEN FALSE
      ELSE IF /\ criteria.min_cores # None
              /\ total_cores # None
              /\ total_cores.n < criteria.min_cores.n
        THEN FALSE
      ELSE IF /\ criteria.max_cores # None
              /\ total_cores # None
              /\ total_cores.n > criteria.max_cores.n
        THEN FALSE
      ELSE TRUE

\* one step of list.sort(key=priority, reverse=True): p, which came after
\* every element of sorted, goes behind the elements of priority >= its own
InsertByPriority_BeforeEqual(sorted, p) ==
  LET ahead == {i \in 1..Len(sorted) : sorted[i].priority > p.priority}
      k == Cardinality(ahead)
  IN  SubSeq(sorted, 1, k) \o <<p>> \o SubSeq(sorted, k + 1, Len(sorted))

InsertByPriority(sorted, p) ==
  LET ahead == {i \in 1..Len(sorted) : sorted[i].priority >= p.priority}
      k == Cardinality(ahead)
  IN  SubSeq(sorted, 1, k) \o <<p>> \o SubSeq(sorted, k + 1, Len(sorted))

\* list.sort(key=lambda profile: profile.priority, reverse=True): stable
RECURSIVE SortByPriority(_)
SortByPriority(ps) ==
  IF ps = <<>> THEN <<>>
  ELSE InsertByPriority(SortByPriority(SubSeq(ps, 1, Len(ps) - 1)), ps[Len(ps)])

\* SafetyProfileEngine.load: the engine's (_profiles, _loaded) afterwards
EngineLoaded(profiles, loaded, found) ==
  IF loaded THEN profiles ELSE SortByPriority(profiles \o found)

\* the loop of SafetyProfileEngine.select
RECURSIVE FirstMatch(_, _)
FirstMatch(profiles, fp) ==
  IF profiles = <<>> THEN None
  ELSE IF _matches(profiles[1].match, fp) THEN profiles[1]
  ELSE FirstMatch(Tail(profiles), fp)

Priorities == 0..MaxNum

MatchBlocks ==
  { Criteria(None, None, None, None),
    Criteria(StrList(<< <<"x">>, <<"E", "P">> >>), None, Num(2), None),
    Criteria(None, StrV(<<"a", "r">>), None, Num(1)),
    Criteria(StrList(<<>>), StrList(<< <<"X">> >>), None, None) }

Fingerprints ==
  { HardwareFingerprint(<<"e", "p", "y">>, Num(2), <<"x", "8">>),
    HardwareFingerprint(<<"E", "p">>, Num(1), <<"A", "R", "m">>),
    HardwareFingerprint(<<>>, None, <<"a", "r">>) }

\* the files of the profiles directory in the order of sorted(glob(...)):
\* the i-th is named after its position
ProfileDirs ==
  { [i \in 1..Len(d) |-> SafetyProfile(<<"p", Digit[i + 1]>>, d[i][1], d[i][2])] :
      d \in SeqsUpTo(Priorities \X MatchBlocks, MaxProfiles) }

SelectInit ==
  /\ discovered \in ProfileDirs
  /\ engine_profiles = <<>>
  /\ engine_loaded = FALSE
  /\ fingerprint = None
  /\ selected = None
  /\ pc = "select"
  /\ flow = <<>>
  /\ profile = _default_margin_profile
  /\ policy = SafetyPolicy(<<>>, "abort")
  /\ ExpandIdle
  /\ ValidateIdle
  /\ InvokeIdle
  /\ RunIdle

\* engine.load()
EngineLoad ==
  /\ pc = "select"
  /\ engine_profiles' = EngineLoaded(engine_profiles, engine_loaded, discovered)
  /\ engine_loaded' = TRUE
  /\ pc' = "loaded"
  /\ UNCHANGED <<inputs, run, expanding, validating, invoking, discovered, fingerprint, selected>>

\* engine.select(sysinfo), where sysinfo has the fingerprint fp
Select(fp, after) ==
  /\ engine_profiles' = EngineLoaded(engine_profiles, engine_loaded, discovered)
  /\ engine_loaded' = TRUE
  /\ fingerprint' = fp
  /\ selected' = FirstMatch(engine_profiles', fp)
  /\ pc' = after
  /\ UNCHANGED <<inputs, run, expanding, validating, invoking, discovered>>

SelectCall ==
  /\ pc \in {"select", "loaded"}
  /\ \E fp \in Fingerprints : Select(fp, "selected")

\* a second select on the same engine
SelectAgain ==
  /\ pc = "selected"
  /\ \E fp \in Fingerprints : Select(fp, "selected_again")

SelectNext ==
  \/ EngineLoad
  \/ SelectCall
  \/ SelectAgain

SpecSelect == SelectInit /\ [][SelectNext]_vars

(***************************************************************************)
(* adapters.py: AdapterManifest.build_command and AdapterExecutor.run      *)
(* called on an adapter name and a parameter mapping.                      *)
(***************************************************************************)
ParameterKeys == {"u", "v", "w"}

\* the mappings of at most MaxSteps keys, in every insertion order
ParameterSets ==
  {d \in SeqsUpTo({Entry(k, x) : k \in ParameterKeys, x \in Scalars}, MaxSteps) :
     \A i \in 1..Len(d) : \A j \in 1..Len(d) : i # j => d[i].k # d[j].k}

\* the stdout_path and stderr_path given to AdapterExecutor.run
CallStdout == "out.log"
CallStderr == "err.log"

InvokeInit ==
  /\ call_name \in DOMAIN Registry \cup {"nope"}
  /\ call_parameters \in ParameterSets
  /\ call_result = NoCall
  /\ pc = "invoke"
  /\ flow = <<>>
  /\ profile = _default_margin_profile
  /\ policy = SafetyPolicy(<<>>, "abort")
  /\ ExpandIdle
  /\ ValidateIdle
  /\ SelectIdle
  /\ RunIdle

\* registry.get(call_name).build_command(call_parameters)
BuildCommandCall ==
  /\ pc = "invoke"
  /\ call_result' =
       IF RegistryGet(call_name) # Ok
         THEN [error |-> RegistryGet(call_name), opened |-> FALSE, spawned |-> FALSE]
         ELSE [error |-> build_command(Registry[call_name], call_parameters),
               opened |-> FALSE, spawned |-> FALSE]
  /\ pc' = "built"
  /\ UNCHANGED <<inputs, run, expanding, validating, selecting, call_name,
                 call_parameters>>

\* executor.run(call_name, call_parameters, CallStdout, CallStderr)
ExecutorRunCall ==
  /\ pc = "invoke"
  /\ \E exit_code \in {0, 1} :
       /\ call_result' = AdapterExecutorRun(call_name, call_parameters, exit_code)
       /\ files' = IF call_result'.opened
                     THEN WriteFile(WriteFile(files, CallStdout, <<>>), CallStderr, <<>>)
                     ELSE files
  /\ pc' = "ran"
  /\ UNCHANGED <<inputs, plan, raised, dry_run, dirs, events, summary, locals, writing,
                 expanding, validating, selecting, call_name, call_parameters>>

InvokeNext ==
  \/ BuildCommandCall
  \/ ExecutorRunCall

SpecInvoke == InvokeInit /\ [][InvokeNext]_vars

(***************************************************************************)
(* runner.py: Runner.plan called on a flow of one step whose sweeps and    *)
(* fixed parameters share keys, and on margin profiles whose targets       *)
(* share keys.                                                             *)
(***************************************************************************)
\* fixed parameters: none, one that a sweep may override, two
FixedParameters ==
  {<<>>, <<Entry("p", Text)>>, <<Entry("q", Text), Entry("p", None)>>}

\* sweeps under no key, one key or two keys, the lists of every length up to
\* MaxSteps, the empty list included
StepSweeps ==
  {<<>>}
  \cup {<<Entry(k, l)>> : k \in {"p", "r"}, l \in SweepLists}
  \cup {<<Entry(k[1], l1), Entry(k[2], l2)>> :
          k \in {<<"p", "r">>, <<"r", "p">>}, l1 \in SweepLists, l2 \in SweepLists}

SweepSteps ==
  {FlowStep(StepNameOf("tool"), "tool", f, s) : f \in FixedParameters, s \in StepSweeps}

\* what a target may declare, with x the value that tells the targets apart
TargetChoices(x) ==
  {TargetMargins(<<Entry("a", x)>>, <<>>, None),
   TargetMargins(<<Entry("a", x), Entry("b", x)>>, <<>>, Map),
   TargetMargins(<<Entry("b", x)>>, <<Entry("c", <<x, x>>)>>, None),
   TargetMargins(<<Entry("jitter", x), Entry("c", x)>>, <<>>, None)}

TargetNames == <<"default", "echo", "gone">>

\* the profiles that declare some of the three targets, in any order; the
\* values of the i-th target are i - 1
MergeProfiles ==
  {MarginProfile(None, [i \in 1..Len(order) |-> Entry(TargetNames[order[i]], choice[order[i]])]) :
     order \in {o \in SeqsUpTo(1..3, 3) : \A i \in 1..Len(o) : \A j \in 1..Len(o) :
                                            i # j => o[i] # o[j]},
     choice \in {c \in [1..3 -> UNION {TargetChoices(Num(n)) : n \in 0..2}] :
                  \A i \in 1..3 : c[i] \in TargetChoices(Num(i - 1))}}

PlanInit ==
  /\ \/ flow \in {<<s>> : s \in SweepSteps} /\ profile = _default_margin_profile
     \/ /\ flow \in {<<FlowStep(StepNameOf(a), a, <<>>, <<>>)>> : a \in {"echo", "tool"}}
        /\ profile \in MergeProfiles
  /\ policy = SafetyPolicy(<<>>, "abort")
  /\ pc = "load"
  /\ AsideIdle
  /\ RunIdle

PlanNext == Plan

SpecPlan == PlanInit /\ [][PlanNext]_vars

(***************************************************************************)
(* Vocabulary of the properties.                                           *)
(***************************************************************************)
Planned == pc \notin {"load", "plan_raised"}
EventIndexes == 1..Len(events)

\* value lies inside bound: a number on the allowed side of each present end.
\* None carries no number and is not held against the bound.
InsideBound(bound, value) ==
  \/ value = None
  \/ /\ value.t = "num"
     /\ bound.minimum # None => value.n >= bound.minimum.n
     /\ bound.maximum # None => value.n <= bound.maximum.n

\* value, converted by float(), is outside bound
OutsideBound(bound, value) == FloatOk(value) /\ ~InsideBound(bound, value)

Bounded(name) == name \in DOMAIN policy.avt_bounds

\* every entry of dict d whose name has a bound lies inside it
DictInside(d, skip_jitter) ==
  \A i \in 1..Len(d) :
    (Bounded(d[i].k) /\ ~(skip_jitter /\ d[i].k = "jitter"))
      => InsideBound(policy.avt_bounds[d[i].k], d[i].v)

\* the invocations of a sub-run plan in plan order, as 0-based (step, inv)
Flattened(subplan) ==
  Concat([s \in 1..Len(subplan.steps) |->
            [i \in 1..Len(subplan.steps[s].invocations) |->
               [step |-> s - 1, inv |-> i - 1]]])

\* the 0-based position of invocation (step, inv) in Flattened(subplan)
FlatIndex(subplan, step, inv) ==
  (CHOOSE p \in 1..Len(Flattened(subplan)) :
     Flattened(subplan)[p] = [step |-> step, inv |-> inv]) - 1

\* the sub-run summaries that have been persisted or returned, with the
\* 0-based index of their sub-run
SubSummaryFile(k) == subrun_summary(plan.parent_id, plan.subruns[k + 1].identifier)
FinishedSubSummaries ==
  {[sub |-> k - 1, s |-> summary[k]] : k \in 1..Len(summary)}
  \cup {[sub |-> k, s |-> files[SubSummaryFile(k)][1]] :
          k \in {j \in 0..(Len(plan.subruns) - 1) : SubSummaryFile(j) \in DOMAIN files}}
  \cup (IF Planned /\ summary_path(plan.parent_id) \in DOMAIN files
          THEN {[sub |-> k - 1, s |-> files[summary_path(plan.parent_id)][k]] :
                  k \in 1..Len(files[summary_path(plan.parent_id)])}
          ELSE {})

InvocationEvents == {"log_start", "open", "spawn", "log_end"}
FailedAt(i) ==
  \/ events[i].e = "spawn" /\ events[i].detail # "0"
  \/ events[i].e = "log_end" /\ events[i].detail = "FAIL"

FixedArtifacts ==
  {plan_path(plan.parent_id), sysinfo_path(plan.parent_id),
   safety_policy_path(plan.parent_id), summary_path(plan.parent_id)}

(***************************************************************************)
(* C1.  Every value a returned RunPlan carries under a name that has a     *)
(* bound lies inside the bound: the non-"jitter" values of every margin    *)
(* point and target, and for every step the resolved margin, the fixed     *)
(* parameters, every element of every sweep list and every invocation      *)
(* parameter.                                                              *)
(***************************************************************************)
C1_PlanValuesInsideBounds ==
  Planned =>
    \A k \in 1..Len(plan.subruns) :
      LET sub == plan.subruns[k]
      IN /\ \A t \in 1..Len(sub.margin_point.values) :
              DictInside(sub.margin_point.values[t].v, TRUE)
         /\ \A s \in 1..Len(sub.steps) :
              /\ DictInside(sub.steps[s].margin, FALSE)
              /\ DictInside(sub.steps[s].step.parameters, FALSE)
              /\ \A w \in 1..Len(sub.steps[s].step.sweeps) :
                   LET sweep == sub.steps[s].step.sweeps[w]
                   IN Bounded(sweep.k) =>
                        \A e \in 1..Len(sweep.v) :
                          InsideBound(policy.avt_bounds[sweep.k], sweep.v[e])
              /\ \A c \in 1..Len(sub.steps[s].invocations) :
                   DictInside(sub.steps[s].invocations[c], FALSE)

(***************************************************************************)
(* C2.  If a margin value, a fixed step parameter or a sweep element of    *)
(* the inputs is outside a registered bound, plan() raises                 *)
(* SafetyViolationError, returns no RunPlan, and nothing has been written  *)
(* or started.                                                             *)
(***************************************************************************)
DictOutside(d) ==
  \E i \in 1..Len(d) :
    Bounded(d[i].k) /\ OutsideBound(policy.avt_bounds[d[i].k], d[i].v)
SweepsOutside(sweeps) ==
  \E w \in 1..Len(sweeps) :
    /\ Bounded(sweeps[w].k)
    /\ \E e \in 1..Len(sweeps[w].v) :
         OutsideBound(policy.avt_bounds[sweeps[w].k], sweeps[w].v[e])
InputOutsideBound ==
  \/ \E t \in 1..Len(profile.targets) :
       \/ DictOutside(profile.targets[t].v.fixed)
       \/ SweepsOutside(profile.targets[t].v.sweeps)
  \/ \E s \in 1..Len(flow) :
       \/ DictOutside(flow[s].parameters)
       \/ SweepsOutside(flow[s].sweeps)

C2_ViolationAbortsPlanning ==
  (pc # "load" /\ InputOutsideBound) =>
    /\ pc = "plan_raised"
    /\ raised = SafetyViolationError
    /\ plan = NoPlan
    /\ files = <<>>
    /\ dirs = {}
    /\ events = <<>>

(***************************************************************************)
(* C3.  In a sub-run nothing is started after the first failing            *)
(* invocation: no later "start" record, capture file or process of that    *)
(* sub-run; a failed step result is the last one of its summary, the       *)
(* summary's status is FAIL, and it holds as many step results as the      *)
(* failing invocation's 0-based position in flattened plan order plus 1.   *)
(***************************************************************************)
C3_FirstFailureEndsSubrun ==
  /\ \A i \in EventIndexes : \A j \in EventIndexes :
       (i < j /\ FailedAt(i) /\ events[j].sub = events[i].sub)
         => events[j].e \notin {"log_start", "open", "spawn"}
  /\ \A f \in FinishedSubSummaries :
       /\ \A j \in 1..Len(f.s.steps) :
            f.s.steps[j].status = "FAIL" => (j = Len(f.s.steps) /\ f.s.status = "FAIL")
       /\ \A i \in EventIndexes :
            (events[i].e = "log_end" /\ events[i].detail = "FAIL" /\ events[i].sub = f.sub)
              => Len(f.s.steps)
                   = FlatIndex(plan.subruns[f.sub + 1], events[i].step, events[i].inv) + 1

\* a sub-run failed on a nonzero exit, after an earlier invocation and with
\* invocations left
C3_Witness ==
  \E k \in 1..Len(summary) :
    /\ summary[k].status = "FAIL"
    /\ Len(summary[k].steps) >= 2
    /\ Len(summary[k].steps) < Len(Flattened(plan.subruns[k]))
    /\ \E i \in EventIndexes :
         events[i].e = "spawn" /\ events[i].detail = "1" /\ events[i].sub = k - 1

(***************************************************************************)
(* C4.  When a non-dry-run execute() returns, its summary has one entry    *)
(* per planned sub-run, in plan order, whatever the earlier statuses; a    *)
(* sub-run whose invocations were all started and all exited 0 is PASS,    *)
(* also after a FAIL sub-run.                                              *)
(***************************************************************************)
AllExitedZero(k) ==
  \A p \in 1..Len(Flattened(plan.subruns[k])) :
    \E i \in EventIndexes :
      /\ events[i].e = "spawn"
      /\ events[i].detail = "0"
      /\ events[i].sub = k - 1
      /\ events[i].step = Flattened(plan.subruns[k])[p].step
      /\ events[i].inv = Flattened(plan.subruns[k])[p].inv

C4_FailingSubrunDoesNotStopRun ==
  (pc = "returned" /\ ~dry_run) =>
    /\ Len(summary) = Len(plan.subruns)
    /\ \A k \in 1..Len(summary) :
         /\ summary[k].run_id = plan.subruns[k].identifier
         /\ summary[k].status \in {"PASS", "FAIL"}
         /\ AllExitedZero(k) => summary[k].status = "PASS"

C4_Witness ==
  /\ pc = "returned"
  /\ Len(summary) = 2
  /\ summary[1].status = "FAIL"
  /\ summary[2].status = "PASS"
  /\ Len(summary[2].steps) >= 2

(***************************************************************************)
(* C5.  An invocation whose adapter cannot be spawned (its absolute path   *)
(* is missing, or its relative name is not on the search path) is          *)
(* recorded FAIL, its sub-run is FAIL, and execute() does not raise.       *)
(***************************************************************************)
Unspawnable(adapter) == adapter \in DOMAIN Registry /\ ~Registry[adapter].resolves

C5_UnspawnableAdapterFailsOnlyInvocation ==
  (pc \in {"log_end", "raised"} /\ Unspawnable(CurrentStepPlan.step.adapter)) =>
    /\ pc = "log_end"
    /\ raised = Ok
    /\ result_status = "FAIL"
    /\ status = "FAIL"

(***************************************************************************)
(* C6.  A flow with a step parameter that fails its adapter's parameter    *)
(* schema makes plan() raise a ValidationError, so nothing is ever         *)
(* written or started for it.                                              *)
(***************************************************************************)
SchemaViolationInFlow ==
  \E s \in 1..Len(flow) :
    /\ flow[s].adapter \in DOMAIN Registry
    /\ \E c \in 1..Len(expanded_parameters(flow[s])) :
         build_command(Registry[flow[s].adapter], expanded_parameters(flow[s])[c]) # Ok

C6_SchemaViolationFailsPlanning ==
  (pc # "load" /\ SchemaViolationInFlow) =>
    /\ pc = "plan_raised"
    /\ IsValidationError(raised)
    /\ files = <<>>
    /\ dirs = {}
    /\ events = <<>>

(***************************************************************************)
(* C7.  Every persisted or returned sub-run summary has status PASS or     *)
(* FAIL, never PENDING; it is PASS exactly when every step result it holds *)
(* is PASS, and a step result is PASS exactly when its process was started *)
(* and exited 0.  While a sub-run is executing, its status is FAIL exactly *)
(* when one of its invocations has failed.                                 *)
(***************************************************************************)
InSubrun == pc \in {"log_start", "run_adapter", "log_end", "subrun_end", "append_subrun"}

C7_SubrunStatusTerminal ==
  /\ \A f \in FinishedSubSummaries :
       /\ f.s.status \in {"PASS", "FAIL"}
       /\ f.s.status = "PASS" <=> \A j \in 1..Len(f.s.steps) : f.s.steps[j].status = "PASS"
       /\ \A j \in 1..Len(f.s.steps) :
            f.s.steps[j].status = "PASS" <=>
              \E i \in EventIndexes :
                /\ events[i].e = "spawn"
                /\ events[i].detail = "0"
                /\ events[i].sub = f.sub
                /\ events[i].step = Flattened(plan.subruns[f.sub + 1])[j].step
                /\ events[i].inv = Flattened(plan.subruns[f.sub + 1])[j].inv
  /\ InSubrun =>
       /\ status \in {"PASS", "FAIL"}
       /\ status = "FAIL" <=>
            \/ \E j \in 1..Len(sub_summary.steps) : sub_summary.steps[j].status = "FAIL"
            \/ pc \in {"run_adapter", "log_end"} /\ result_status = "FAIL"
  /\ pc \in {"log_start", "run_adapter", "log_end", "subrun_end"} =>
       sub_summary.status = "PENDING"

\* a run returned a PASS sub-run and a FAIL sub-run, each with two step results
C7_Witness ==
  /\ pc = "returned"
  /\ \E k \in 1..Len(summary) : summary[k].status = "FAIL" /\ Len(summary[k].steps) >= 2
  /\ \E k \in 1..Len(summary) : summary[k].status = "PASS" /\ Len(summary[k].steps) >= 2

(***************************************************************************)
(* C8.  No invocation is attempted twice: for each (sub-run, step,         *)
(* invocation) there is at most one "start" record and at most one         *)
(* process.                                                                *)
(***************************************************************************)
C8_AtMostOneAttempt ==
  \A i \in EventIndexes : \A j \in EventIndexes :
    (/\ i < j
     /\ events[i].e \in {"spawn", "log_start"}
     /\ events[j].e = events[i].e)
      => <<events[i].sub, events[i].step, events[i].inv>>
           # <<events[j].sub, events[j].step, events[j].inv>>

\* a run returned after a process exited nonzero and others were started
C8_Witness ==
  /\ pc = "returned"
  /\ \E i \in EventIndexes : events[i].e = "spawn" /\ events[i].detail = "1"
  /\ Cardinality({i \in EventIndexes : events[i].e = "spawn"}) >= 3

(***************************************************************************)
(* C9.  With dry_run, execute() starts no process and creates nothing      *)
(* below the run directory but plan.json, sysinfo.json,                    *)
(* safety_policy.json and summary.json; when it returns these four exist   *)
(* and the summary's subruns list is empty.                                *)
(***************************************************************************)
C9_DryRunExecutesNothing ==
  dry_run =>
    /\ \A i \in EventIndexes : events[i].e \in {"mkdir", "write"}
    /\ dirs \subseteq {parent_dir(plan.parent_id)}
    /\ DOMAIN files \subseteq FixedArtifacts
    /\ pc \in {"write_plan", "write_sysinfo", "write_safety_policy", "write_summary",
               "dry_run_test", "returned"}
    /\ pc = "returned" =>
         /\ DOMAIN files = FixedArtifacts
         /\ files[summary_path(plan.parent_id)] = <<>>
         /\ summary = <<>>

\* a dry run of a plan that has invocations returned
C9_Witness ==
  /\ dry_run
  /\ pc = "returned"
  /\ Len(plan.subruns) >= 2
  /\ Len(Flattened(plan.subruns[1])) >= 2

(***************************************************************************)
(* C10.  plan.json, sysinfo.json, safety_policy.json and the initial       *)
(* summary.json, whose subruns list is empty, are written before the       *)
(* first log record, capture file or process.                              *)
(***************************************************************************)
C10_FixedArtifactsFirst ==
  /\ \A j \in EventIndexes :
       events[j].e \in InvocationEvents =>
         \A path \in FixedArtifacts :
           \E i \in 1..(j - 1) : events[i].e = "write" /\ events[i].path = path
  /\ pc = "dry_run_test" =>
       /\ FixedArtifacts \subseteq DOMAIN files
       /\ files[summary_path(plan.parent_id)] = <<>>
       /\ \A j \in EventIndexes : events[j].e \notin InvocationEvents

\* a process has been started
C10_Witness ==
  \E j \in EventIndexes : events[j].e = "spawn"

(***************************************************************************)
(* C11.  Once the initial summary has been written, the summary.json on    *)
(* disk is at every moment a complete document whose subruns list is a     *)
(* prefix, in plan order, of the plan's sub-runs, each with a terminal     *)
(* status.                                                                 *)
(***************************************************************************)
C11_SummaryOnDiskReadable ==
  (Planned /\ summary_path(plan.parent_id) \in DOMAIN files) =>
    LET content == files[summary_path(plan.parent_id)]
    IN /\ writing # summary_path(plan.parent_id)
       /\ Len(content) <= Len(plan.subruns)
       /\ \A k \in 1..Len(content) :
            /\ content[k].run_id = plan.subruns[k].identifier
            /\ content[k].status \in {"PASS", "FAIL"}

(***************************************************************************)
(* C12.  No step of execute() changes the RunPlan: from the moment plan()  *)
(* has returned it, its parent_id, seed, sub-runs, margin points, step     *)
(* plans, invocations and resolved margins keep their values.              *)
(***************************************************************************)
C12_ExecuteLeavesPlanUnchanged == [][pc # "load" => plan' = plan]_vars

\* a run of two sub-runs returned after an invocation failed
C12_Witness ==
  /\ pc = "returned"
  /\ ~dry_run
  /\ Len(plan.subruns) >= 2
  /\ Len(Flattened(plan.subruns[1])) >= 2
  /\ \E k \in 1..Len(summary) : summary[k].status = "FAIL"

(***************************************************************************)
(* C13.  The behavior of the safety policy does not influence planning:    *)
(* with the same flow, margin profile and avt_bounds, plan() under any     *)
(* other behavior raises exactly when it raised here, with the same        *)
(* error, and otherwise returns the same sub-runs, steps, margins and      *)
(* invocations.                                                            *)
(***************************************************************************)
PlanUnderBehavior(b) ==
  RunnerPlan(flow, profile, [policy EXCEPT !.behavior = b], CHOOSE now \in Clock : TRUE)

C13_BehaviorDoesNotInfluencePlanning ==
  \A b \in Behaviors :
    /\ pc = "plan_raised" => PlanUnderBehavior(b).error = raised
    /\ pc = "planned" =>
         /\ PlanUnderBehavior(b).error = Ok
         /\ PlanUnderBehavior(b).subruns = plan.subruns
         /\ PlanUnderBehavior(b).seed = plan.seed

\* planning under a "warn" policy raised a SafetyViolationError
C13_Witness ==
  /\ pc = "plan_raised"
  /\ raised = SafetyViolationError
  /\ policy.behavior = "warn"

(***************************************************************************)
(* The points a profile is to expand to, from its declaration.             *)
(***************************************************************************)
RECURSIVE SweepsBefore(_, _)
\* the number of sweeps declared by the targets before the t-th
SweepsBefore(pr, t) ==
  IF t <= 1 THEN 0
  ELSE SweepsBefore(pr, t - 1) + Len(pr.targets[t - 1].v.sweeps)

SweepCount(pr) == SweepsBefore(pr, Len(pr.targets) + 1)

\* the q-th sweep in declaration order over all targets, with its target
SweepAt(pr, q) ==
  LET t == CHOOSE u \in 1..Len(pr.targets) :
             SweepsBefore(pr, u) < q /\ q <= SweepsBefore(pr, u + 1)
  IN [target |-> pr.targets[t].k,
      sweep |-> pr.targets[t].v.sweeps[q - SweepsBefore(pr, t)]]

RECURSIVE SizeProduct(_, _)
\* the product of the sizes of the sweeps from the q-th on
SizeProduct(pr, q) ==
  IF q > SweepCount(pr) THEN 1
  ELSE Len(SweepAt(pr, q).sweep.v) * SizeProduct(pr, q + 1)

\* the value of the q-th sweep in the combination of 0-based index i, the
\* last sweep varying fastest
Chosen(pr, i, q) ==
  LET list == SweepAt(pr, q).sweep.v
  IN list[((i \div SizeProduct(pr, q + 1)) % Len(list)) + 1]

\* the points are as many as the combinations, are numbered and seeded by
\* their index, and carry for every target its fixed values, its jitter when
\* it is not one of absent, and the swept values of their combination
PointsAsDeclared(pr, pts, absent) ==
  /\ Len(pts) = IF SweepCount(pr) = 0 THEN 1 ELSE SizeProduct(pr, 1)
  /\ \A i \in 0..(Len(pts) - 1) :
       LET pt == pts[i + 1]
       IN /\ pt.identifier = "point-" \o Dec(i)
          /\ pt.seed = (IF pr.global_seed = None THEN 0 ELSE pr.global_seed.n) + i
          /\ Len(pt.values) = Len(pr.targets)
          /\ \A t \in 1..Len(pr.targets) :
               LET target == pr.targets[t].v
                   swept == {q \in 1..SweepCount(pr) :
                               SweepAt(pr, q).target = pr.targets[t].k}
                   keys == DictKeys(target.fixed)
                           \cup {SweepAt(pr, q).sweep.k : q \in swept}
                           \cup (IF target.jitter \notin absent THEN {"jitter"} ELSE {})
                   got == DictGet(pt.values, pr.targets[t].k)
               IN /\ DictHas(pt.values, pr.targets[t].k)
                  /\ DictKeys(got) = keys
                  /\ Len(got) = Cardinality(keys)
                  /\ \A key \in keys :
                       DictGet(got, key) =
                         IF \E q \in swept : SweepAt(pr, q).sweep.k = key
                           THEN Chosen(pr, i, CHOOSE q \in swept :
                                                SweepAt(pr, q).sweep.k = key)
                         ELSE IF DictHas(target.fixed, key)
                           THEN DictGet(target.fixed, key)
                         ELSE target.jitter
  /\ \A i \in 1..Len(pts) : \A j \in 1..Len(pts) :
       i # j => pts[i].seed # pts[j].seed

\* the jitter values that count as no jitter: as stated, and in the code
JitterUndeclared == {None}
JitterFalsy == {None, EmptyMap}

ArgBound == policy.avt_bounds[arg_name]

\* v >= minimum and v <= maximum for the ends that are present; a
\* comparison with NaN is false
BoundAdmits(bound, v) ==
  /\ bound.minimum = None \/ (v.t = "num" /\ v.n >= bound.minimum.n)
  /\ bound.maximum = None \/ (v.t = "num" /\ v.n <= bound.maximum.n)

C16_BoundValidateInclusive ==
  (pc = "bound_validated" /\ arg_value.t \in {"num", "nan"}) =>
    /\ outcome \in {Ok, SafetyViolationError}
    /\ outcome = Ok <=> BoundAdmits(ArgBound, arg_value)

(***************************************************************************)
(* C17.  Under a name that has a bound, a value that is no number (a text, *)
(* a mapping, null) fails validation with SafetyViolationError.            *)
(***************************************************************************)
C17_NonNumericIsSafetyViolation ==
  (/\ pc \in {"bound_validated", "value_validated"}
   /\ arg_name \in DOMAIN policy.avt_bounds
   /\ arg_value \in {None, Text, Map, EmptyMap})
    => outcome = SafetyViolationError

(***************************************************************************)
(* C18.  Under a name that has a bound, validate_value fails on a list     *)
(* exactly when some element of the list fails Bound.validate on its own;  *)
(* and plan() fails for a flow whose sweep list holds such an element.     *)
(***************************************************************************)
SomeElementFails ==
  \E i \in 1..Len(arg_value.items) : BoundValidate(ArgBound, arg_value.items[i]) # Ok

C19_UnregisteredNamesPass ==
  (/\ pc \in {"value_validated", "value_planned"}
   /\ arg_name \notin DOMAIN policy.avt_bounds)
    => outcome = Ok

\* a list with a text in it passed under "u" while "v" has a bound
C19_Witness ==
  /\ pc = "value_planned"
  /\ arg_name = "u"
  /\ "v" \in DOMAIN policy.avt_bounds
  /\ arg_value.t = "list"
  /\ Len(arg_value.items) >= 1
  /\ arg_value.items[1] = Text
  /\ outcome = Ok

(***************************************************************************)
(* C20.  SafetyProfileEngine.select returns the first profile, in          *)
(* descending priority with ties in discovery order, that accepts the      *)
(* fingerprint: the result is an accepting profile, no accepting profile   *)
(* has a higher priority, and none of equal priority was discovered        *)
(* before it; the result is None when no profile accepts or the            *)
(* directory is empty.                                                     *)
(***************************************************************************)
Accepting == {i \in 1..Len(discovered) : _matches(discovered[i].match, fingerprint)}

C20_SelectByPriority ==
  pc \in {"selected", "selected_again"} =>
    IF Accepting = {}
      THEN selected = None
      ELSE \E i \in Accepting :
             /\ selected = discovered[i]
             /\ \A j \in Accepting :
                  \/ discovered[j].priority < discovered[i].priority
                  \/ discovered[j].priority = discovered[i].priority /\ j >= i

\* three profiles accept; the one selected is neither the first discovered
\* nor alone at its priority, and a profile of lower priority comes first
C20_Witness ==
  /\ pc = "selected_again"
  /\ Cardinality(Accepting) = 3
  /\ selected = discovered[2]
  /\ discovered[3].priority = discovered[2].priority
  /\ discovered[1].priority < discovered[2].priority

(***************************************************************************)
(* C21.  _matches accepts a fingerprint exactly when every declared        *)
(* cpu_model_contains substring occurs, case-insensitively, in the CPU     *)
(* model, every declared architecture_contains substring occurs in the     *)
(* architecture, and a known core count is >= min_cores and <= max_cores   *)
(* where declared; an unknown core count never rejects and empty criteria  *)
(* accept every fingerprint.                                               *)
(***************************************************************************)
EverySubstringOccurs(declared, cs) ==
  \A i \in 1..Len(_ensure_list(declared)) :
    Contains(Lower(_ensure_list(declared)[i]), Lower(cs))

AcceptsAsStated(criteria, fp) ==
  /\ EverySubstringOccurs(criteria.cpu_model_contains, fp.cpu_model)
  /\ EverySubstringOccurs(criteria.architecture_contains, fp.architecture)
  /\ fp.total_cores # None =>
       /\ criteria.min_cores # None => fp.total_cores.n >= criteria.min_cores.n
       /\ criteria.max_cores # None => fp.total_cores.n <= criteria.max_cores.n

C21_MatchRequiresEverySubstring ==
  pc \in {"selected", "selected_again"} =>
    \A i \in 1..Len(discovered) :
      _matches(discovered[i].match, fingerprint)
        <=> AcceptsAsStated(discovered[i].match, fingerprint)

(***************************************************************************)
(* C22.  When a non-dry-run execute() has returned, plan.json,             *)
(* summary.json, sysinfo.json, safety_policy.json, report.md and           *)
(* report.html exist in the run directory; each report was written         *)
(* exactly once, after every other write and every invocation of the run,  *)
(* when summary.json held the results of all the plan's sub-runs; and no   *)
(* report exists before execute() returns.                                 *)
(***************************************************************************)
Reports == {markdown_report_path(plan.parent_id), html_report_path(plan.parent_id)}
ReportWrites == {j \in EventIndexes : events[j].e = "write" /\ events[j].path \in Reports}

C22_ReportsRenderedOnceAtEnd ==
  /\ (pc = "returned" /\ ~dry_run) =>
       /\ FixedArtifacts \cup Reports \subseteq DOMAIN files
       /\ \A path \in Reports :
            Cardinality({j \in ReportWrites : events[j].path = path}) = 1
       /\ \A j \in ReportWrites : \A i \in EventIndexes \ ReportWrites : i < j
       /\ files[summary_path(plan.parent_id)] = summary
       /\ Len(summary) = Len(plan.subruns)
       /\ \A k \in 0..(Len(plan.subruns) - 1) : SubSummaryFile(k) \in DOMAIN files
  /\ (Planned /\ ~(pc = "returned" /\ ~dry_run)) =>
       /\ ReportWrites = {}
       /\ Reports \cap DOMAIN files = {}

\* a run of two sub-runs, one of which failed, has returned
C22_Witness ==
  /\ pc = "returned"
  /\ ~dry_run
  /\ Len(summary) = 2
  /\ \E k \in 1..2 : summary[k].status = "FAIL"
  /\ Reports \subseteq DOMAIN files

(***************************************************************************)
(* C23.  AdapterExecutor.run checks every supplied parameter against the   *)
(* manifest's schema before it opens or starts anything: when a supplied   *)
(* parameter is outside its allowed set, or for a numeric type is no       *)
(* number or lies outside [minimum, maximum], the call raises              *)
(* ValidationError, no process is started and no stdout or stderr file is  *)
(* created, wherever the parameter stands; a parameter without a schema    *)
(* entry never makes the call fail.                                        *)
(***************************************************************************)
ViolatesSchema(schema, value) ==
  \/ /\ schema.allowed # None
     /\ \A i \in 1..Len(schema.allowed.items) : schema.allowed.items[i] # value
  \/ /\ schema.type \in {"integer", "float"}
     /\ \/ value.t \notin {"num", "nan"}
        \/ ~BoundAdmits(schema, value)

Offending ==
  {i \in 1..Len(call_parameters) :
     /\ DictHas(Registry[call_name].parameters, call_parameters[i].k)
     /\ ViolatesSchema(DictGet(Registry[call_name].parameters, call_parameters[i].k),
                       call_parameters[i].v)}

C23_SchemaCheckedBeforeSpawn ==
  (pc \in {"built", "ran"} /\ call_name \in DOMAIN Registry) =>
    /\ Offending # {} =>
         /\ call_result.error = ValidationError
         /\ ~call_result.spawned
         /\ ~call_result.opened
         /\ files = <<>>
    /\ Offending = {} => call_result.error # ValidationError

(***************************************************************************)
(* C24.  Execution is sequential in plan order.  The "start" records       *)
(* follow one another in the order of (sub-run, step, invocation); every   *)
(* capture file, process and "end" record belongs to the invocation that   *)
(* started last, and an invocation starts only when the one before has     *)
(* its "end" record; in each sub-run's log the records alternate "start",  *)
(* "end" for the same step; and an invocation of sub-run k+1 starts only   *)
(* after sub-run k's own summary and the top-level summary that lists it   *)
(* have been written.                                                      *)
(***************************************************************************)
InvocationOf(i) == <<events[i].sub, events[i].step, events[i].inv>>

InPlanOrder(a, b) ==
  \/ a[1] < b[1]
  \/ a[1] = b[1] /\ a[2] < b[2]
  \/ a[1] = b[1] /\ a[2] = b[2] /\ a[3] < b[3]

LogEvents == {i \in EventIndexes : events[i].e \in {"log_start", "log_end"}}

\* the last "start" or "end" record before event j, 0 if there is none
LastLogBefore(j) ==
  IF \E i \in LogEvents : i < j
    THEN CHOOSE i \in LogEvents : i < j /\ \A m \in LogEvents : m < j => m <= i
    ELSE 0

SummaryWritesBefore(j) ==
  {i \in 1..(j - 1) : events[i].e = "write" /\ events[i].path = summary_path(plan.parent_id)}

C24_SequentialInPlanOrder ==
  /\ \A i \in EventIndexes : \A j \in EventIndexes :
       (i < j /\ events[i].e = "log_start" /\ events[j].e = "log_start")
         => InPlanOrder(InvocationOf(i), InvocationOf(j))
  /\ \A j \in EventIndexes :
       /\ events[j].e \in {"open", "spawn", "log_end"} =>
            /\ LastLogBefore(j) # 0
            /\ events[LastLogBefore(j)].e = "log_start"
            /\ InvocationOf(LastLogBefore(j)) = InvocationOf(j)
       /\ events[j].e = "log_start" =>
            /\ LastLogBefore(j) # 0 => events[LastLogBefore(j)].e = "log_end"
            /\ events[j].step < Len(plan.subruns[events[j].sub + 1].steps)
            /\ events[j].inv <
                 Len(plan.subruns[events[j].sub + 1].steps[events[j].step + 1].invocations)
            /\ \A k \in 0..(events[j].sub - 1) :
                 /\ \E i \in 1..(j - 1) :
                      events[i].e = "write" /\ events[i].path = SubSummaryFile(k)
                 /\ Cardinality(SummaryWritesBefore(j)) >= k + 2
  /\ Planned =>
       \A k \in 0..(Len(plan.subruns) - 1) :
         LET path == subrun_ldjson(plan.parent_id, plan.subruns[k + 1].identifier)
         IN path \in DOMAIN files =>
              \A p \in 1..Len(files[path]) :
                IF p % 2 = 1
                  THEN files[path][p].action = "start"
                  ELSE /\ files[path][p].action = "end"
                       /\ files[path][p].step = files[path][p - 1].step

\* a run of two sub-runs with three invocations each has returned
C24_Witness ==
  /\ pc = "returned"
  /\ Len(plan.subruns) = 2
  /\ Len(Flattened(plan.subruns[1])) >= 3
  /\ Cardinality({i \in EventIndexes : events[i].e = "log_end"}) >= 6

(***************************************************************************)
(* C25.  Every invocation that was started is recorded in full, however    *)
(* the adapter call ended: once the invocation is over, its "start"        *)
(* record is followed by exactly one "end" record, and the sub-run         *)
(* summary holds one step result for it with the status of the "end"       *)
(* record; and once the sub-run is over, its summary is on disk with       *)
(* status PASS or FAIL.                                                    *)
(***************************************************************************)
\* the invocation of event i is still being executed
Underway(i) ==
  /\ pc \in {"run_adapter", "log_end"}
  /\ InvocationOf(i) = <<sub_index, step_index, invocation_index>>

EndsOf(i) ==
  {j \in EventIndexes :
     j > i /\ events[j].e = "log_end" /\ InvocationOf(j) = InvocationOf(i)}

\* the step results of sub-run k: being collected, or persisted
StepResultsOf(k) ==
  IF k = sub_index /\ pc \in {"log_start", "run_adapter", "log_end", "subrun_end"}
    THEN sub_summary.steps
  ELSE IF SubSummaryFile(k) \in DOMAIN files
    THEN files[SubSummaryFile(k)][1].steps
  ELSE <<>>

C25_StartedInvocationsRecorded ==
  \A i \in EventIndexes :
    (events[i].e = "log_start" /\ ~Underway(i)) =>
      LET k == events[i].sub
          at == FlatIndex(plan.subruns[k + 1], events[i].step, events[i].inv) + 1
      IN /\ Cardinality(EndsOf(i)) = 1
         /\ Len(StepResultsOf(k)) >= at
         /\ \A j \in EndsOf(i) : StepResultsOf(k)[at].status = events[j].detail
         /\ (k < sub_index \/ pc \in {"append_subrun", "dump_summary", "render_reports",
                                      "returned"}) =>
              /\ SubSummaryFile(k) \in DOMAIN files
              /\ files[SubSummaryFile(k)][1].status \in {"PASS", "FAIL"}

(***************************************************************************)
(* C26.  A FlowStep with sweep lists of sizes k1..kn expands to            *)
(* k1*...*kn parameter sets in Cartesian-product order over the sweep      *)
(* keys as declared, the last key varying fastest, and to the one set of   *)
(* its fixed parameters when it has no sweeps; every set holds exactly     *)
(* the fixed keys and the sweep keys, a swept key with its value of the    *)
(* combination and any other key with its fixed value.                     *)
(***************************************************************************)
RECURSIVE SizesFrom(_, _)
\* the product of the sizes of the sweep lists from the q-th on
SizesFrom(sweeps, q) ==
  IF q > Len(sweeps) THEN 1 ELSE Len(sweeps[q].v) * SizesFrom(sweeps, q + 1)

\* the value of the q-th sweep key in the combination of 0-based index c
SweptValue(sweeps, c, q) ==
  sweeps[q].v[((c \div SizesFrom(sweeps, q + 1)) % Len(sweeps[q].v)) + 1]

ExpandsAsDeclared(step, invocations) ==
  /\ Len(invocations) = SizesFrom(step.sweeps, 1)
  /\ \A c \in 0..(Len(invocations) - 1) :
       LET params == invocations[c + 1]
       IN /\ DictKeys(params) = DictKeys(step.parameters) \cup DictKeys(step.sweeps)
          /\ Len(params) = Cardinality(DictKeys(params))
          /\ \A q \in 1..Len(step.sweeps) :
               DictGet(params, step.sweeps[q].k) = SweptValue(step.sweeps, c, q)
          /\ \A f \in 1..Len(step.parameters) :
               step.parameters[f].k \notin DictKeys(step.sweeps)
                 => DictGet(params, step.parameters[f].k) = step.parameters[f].v

C26_StepExpansion ==
  pc = "planned" =>
    \A k \in 1..Len(plan.subruns) : \A s \in 1..Len(flow) :
      ExpandsAsDeclared(flow[s], plan.subruns[k].steps[s].invocations)

\* a step with two sweep keys of MaxSteps values each, one of them also a
\* fixed parameter, expanded to MaxSteps * MaxSteps sets that differ pairwise
C26_Witness ==
  /\ pc = "planned"
  /\ Len(flow) = 1
  /\ Len(flow[1].sweeps) = 2
  /\ Len(flow[1].parameters) = 2
  /\ LET invocations == plan.subruns[1].steps[1].invocations
     IN /\ Len(invocations) = MaxSteps * MaxSteps
        /\ \A i \in 1..Len(invocations) : \A j \in 1..Len(invocations) :
             i # j => invocations[i] # invocations[j]

(***************************************************************************)
(* C27.  For every margin point and step of a plan, the step's resolved    *)
(* margin holds exactly the keys other than "jitter" of the point's        *)
(* "default" target and of the target named like the step's adapter, each  *)
(* with the adapter target's value when that target defines the key and    *)
(* with the default target's value otherwise; it holds nothing of any      *)
(* other target.                                                           *)
(***************************************************************************)
TargetValues(point, target) ==
  IF DictHas(point.values, target) THEN DictGet(point.values, target) ELSE <<>>

MergedAsStated(point, adapter, margin) ==
  LET default_values == TargetValues(point, "default")
      adapter_values == TargetValues(point, adapter)
      keys == (DictKeys(default_values) \cup DictKeys(adapter_values)) \ {"jitter"}
  IN /\ DictKeys(margin) = keys
     /\ Len(margin) = Cardinality(keys)
     /\ \A key \in keys :
          DictGet(margin, key) = IF DictHas(adapter_values, key)
                                   THEN DictGet(adapter_values, key)
                                   ELSE DictGet(default_values, key)
     /\ \A i \in 1..Len(point.values) :
          point.values[i].k \notin {"default", adapter} =>
            \A j \in 1..Len(margin) : \A m \in 1..Len(point.values[i].v) :
              margin[j].v # point.values[i].v[m].v

C27_ResolvedMargin ==
  pc = "planned" =>
    \A k \in 1..Len(plan.subruns) : \A s \in 1..Len(flow) :
      MergedAsStated(plan.subruns[k].margin_point, flow[s].adapter,
                     plan.subruns[k].steps[s].margin)

\* the three targets are declared, "default" and "echo" share a key and
\* carry a jitter, and the step of adapter "echo" got a margin of two keys
C27_Witness ==
  /\ pc = "planned"
  /\ Len(profile.targets) = 3
  /\ flow[1].adapter = "echo"
  /\ LET point == plan.subruns[1].margin_point
     IN /\ DictHas(TargetValues(point, "default"), "jitter")
        /\ DictHas(TargetValues(point, "echo"), "jitter")
        /\ DictHas(TargetValues(point, "default"), "b")
        /\ DictHas(TargetValues(point, "echo"), "b")
        /\ DictHas(TargetValues(point, "gone"), "c")
  /\ Len(plan.subruns[1].steps[1].margin) = 2

(***************************************************************************)
(* C28.  The capture files of an invocation are named                      *)
(* <NN>_<sanitized step name>.log when its step has one invocation and     *)
(* <NN>_<sanitized step name>_<II>.log, II the zero-padded invocation      *)
(* index, when the step has several, the invocation of index 0 included.   *)
(***************************************************************************)
CaptureNameAsStated(step_plan, index, invocation) ==
  Fmt02(index) \o "_" \o sanitize(step_plan.step.name)
  \o (IF Len(step_plan.invocations) > 1 THEN "_" \o Fmt02(invocation) ELSE "")
  \o ".log"

C28_CaptureFileNames ==
  \A i \in EventIndexes :
    events[i].e = "open" =>
      LET subplan == plan.subruns[events[i].sub + 1]
          name == CaptureNameAsStated(subplan.steps[events[i].step + 1],
                                      events[i].step, events[i].inv)
          dir == subrun_dir(plan.parent_id, subplan.identifier)
      IN events[i].path \in {dir \o "/stdout/" \o name, dir \o "/stderr/" \o name}

(***************************************************************************)
(* C29.  No capture file is written twice in a run: the sub-runs of a      *)
(* plan have pairwise distinct identifiers, and within a sub-run two       *)
(* different (step index, invocation index) pairs have different stdout    *)
(* paths and different stderr paths, also for steps of the same name or    *)
(* of names that sanitize to the same text; so every capture file that is  *)
(* opened did not exist before.                                            *)
(***************************************************************************)
StdoutOf(subplan, at) ==
  step_stdout(plan.parent_id, subplan.identifier, subplan.steps[at.step + 1].step.name,
              at.step, at.inv)
StderrOf(subplan, at) ==
  step_stderr(plan.parent_id, subplan.identifier, subplan.steps[at.step + 1].step.name,
              at.step, at.inv)

C29_CapturePathsDistinct ==
  /\ Planned =>
       /\ \A k \in 1..Len(plan.subruns) : \A l \in 1..Len(plan.subruns) :
            k # l => plan.subruns[k].identifier # plan.subruns[l].identifier
       /\ \A k \in 1..Len(plan.subruns) :
            LET all == Flattened(plan.subruns[k])
            IN \A a \in 1..Len(all) : \A b \in 1..Len(all) :
                 a # b =>
                   /\ StdoutOf(plan.subruns[k], all[a]) # StdoutOf(plan.subruns[k], all[b])
                   /\ StderrOf(plan.subruns[k], all[a]) # StderrOf(plan.subruns[k], all[b])
  /\ \A i \in EventIndexes : \A j \in EventIndexes :
       (i < j /\ events[i].e = "open" /\ events[j].e = "open")
         => events[i].path # events[j].path

\* two steps whose names sanitize to the same text, one with two
\* invocations, were executed in two sub-runs
C29_Witness ==
  /\ pc = "returned"
  /\ Len(plan.subruns) = 2
  /\ Len(flow) = 2
  /\ sanitize(flow[1].name) = sanitize(flow[2].name)
  /\ Len(Flattened(plan.subruns[1])) = 3
  /\ Cardinality({i \in EventIndexes : events[i].e = "open"}) = 12

(***************************************************************************)
(* C30.  At every moment of an execution, each sub-run that the            *)
(* summary.json on disk lists has its own summary.json on disk, with the   *)
(* same status and the same step results; and a sub-run's own summary,     *)
(* once written, is never changed or removed.                              *)
(***************************************************************************)
ListedSubruns ==
  IF Planned /\ summary_path(plan.parent_id) \in DOMAIN files
    THEN files[summary_path(plan.parent_id)]
    ELSE <<>>

ListedHaveOwnSummary ==
  \A k \in 1..Len(ListedSubruns) :
    /\ k <= Len(plan.subruns)
    /\ SubSummaryFile(k - 1) \in DOMAIN files
    /\ files[SubSummaryFile(k - 1)] = <<ListedSubruns[k]>>
    /\ ListedSubruns[k].run_id = plan.subruns[k].identifier

OwnSummariesKept ==
  Planned =>
    \A k \in 0..(Len(plan.subruns) - 1) :
      SubSummaryFile(k) \in DOMAIN files =>
        /\ SubSummaryFile(k) \in DOMAIN files'
        /\ files'[SubSummaryFile(k)] = files[SubSummaryFile(k)]

C30_ListedSubrunsPersistedFirst == [](ListedHaveOwnSummary) /\ [][OwnSummariesKept]_vars

\* the summary on disk lists two sub-runs with step results, one of them failed
C30_Witness ==
  /\ Len(ListedSubruns) = 2
  /\ ListedSubruns[1].status = "FAIL"
  /\ ListedSubruns[2].status = "PASS"
  /\ Len(ListedSubruns[1].steps) >= 1
  /\ Len(ListedSubruns[2].steps) >= 2

====
